---- MODULE Spec2Model ----
(***************************************************************************)
(* anatomize.pack: the representation policy (representations.py), the     *)
(* ignore layering (ignore.py) and the discovery walker (discovery.py).    *)
(*                                                                         *)
(* Strings are sequences of one-character strings, so that stripping,      *)
(* splitting, wildcard matching and lexicographic comparison are computed  *)
(* character by character as the Python code computes them.  A             *)
(* PurePosixPath is the sequence of its parts.                             *)
(***************************************************************************)
EXTENDS Integers, Sequences, FiniteSets, TLC

VARIABLES
    pc,          \* position of the running operation
    m_raw,       \* matcher run: the raw pattern handed to compile_representation_rules
    m_rep,       \* matcher run: the representation handed to compile_representation_rules
    m_rel,       \* matcher run: rel_posix
    m_is_dir,    \* matcher run: is_dir
    m_rules,     \* matcher run: the list compile_representation_rules returned
    m_parts,     \* matcher run: what _match_parts returned for each compiled rule
    m_single,    \* matcher run: what _match_single returned for each compiled rule
    m_match,     \* matcher run: what _matches returned for each compiled rule
    r_raw,       \* resolve run: the registered (pattern, representation) pairs, in order
    r_rel,       \* resolve run: rel_posix
    r_is_dir,    \* resolve run: is_dir
    r_default,   \* resolve run: default
    r_rules,     \* resolve run: RepresentationPolicy.rules
    r_hits,      \* resolve run: what _matches returned for each rule of the policy
    r_rep,       \* resolve run: what resolve returned
    x_raw,       \* explain run: the (pattern, source) pairs handed to Excluder
    x_rel,       \* explain run: rel_posix
    x_is_dir,    \* explain run: is_dir
    x_rules,     \* explain run: the Excluder's compiled rules
    x_hits,      \* explain run: whether each rule matched the path
    x_out,       \* explain run: what explain returned
    fs,          \* discovery: the filesystem under root, real path -> node
    cfg,         \* discovery: the arguments of discover_paths
    stack,       \* discovery: the walk_dir calls in progress, innermost last
    results,     \* discovery: the results list
    trace,       \* discovery: the caller's trace list, or None
    d_err,       \* discovery: the exception that ended discover_paths, or None
    log,         \* discovery: history of the directories listed and the
                 \*            entries handed to Excluder.explain
    manifest,    \* discovery: the (path, representation) manifest, or None
    run,         \* discovery: number of the current pass over the same tree
    first,       \* discovery: outcome of the first pass, or None
    obj,         \* outline: the parsed document handed to _outline_paths
    limits,      \* outline: max_depth, max_items, max_keys
    queue,       \* outline: the deque of (prefix, cur, depth), leftmost first
    paths,       \* outline: the paths list
    steps,       \* outline: for each element of paths, the keys and indices
                 \*          that lead to it from obj
    key_count,   \* outline: key_count
    item_count,  \* outline: item_count
    s_suffix,    \* summary: suffix
    s_text,      \* summary: text
    s_rel,       \* summary: rel_posix
    s_cfg,       \* summary: cfg
    s_lines,     \* summary: the lines markdown_summary has still to read
    s_headings,  \* summary: headings
    s_out        \* summary: the summary returned or the exception raised

m_vars == <<m_raw, m_rep, m_rel, m_is_dir, m_rules, m_parts, m_single, m_match>>

r_vars == <<r_raw, r_rel, r_is_dir, r_default, r_rules, r_hits, r_rep>>

x_vars == <<x_raw, x_rel, x_is_dir, x_rules, x_hits, x_out>>

d_vars == <<fs, cfg, stack, results, trace, d_err, log, manifest, run, first>>

o_vars == <<obj, limits, queue, paths, steps, key_count, item_count>>

s_vars == <<s_suffix, s_text, s_rel, s_cfg, s_lines, s_headings, s_out>>

vars == <<pc, m_vars, r_vars, x_vars, d_vars, o_vars, s_vars>>

\* ------------------------------------------------------------------ bounds

\* Longest relative path, in segments, handed to the matcher.
MaxSegs == 4

\* Symbolic links the operating system follows in the resolution of one
\* path before it gives up with ELOOP (40 on Linux), scaled down.
MaxSymlinkHops == 2

\* Longest rule list of a representation policy, and longest relative path,
\* in segments, handed to resolve.
MaxRules == 2
MaxResolveSegs == 2

\* Longest pattern list of an Excluder, and longest relative path, in
\* segments, handed to explain.
MaxIgnoreRules == 2
MaxExplainSegs == 2

\* Most entries under the root of a walked tree.
MaxNodes == 3

\* Deepest nesting of the small documents handed to _outline_paths.
MaxDocDepth == 1

\* ----------------------------------------------------------------- strings

\* The characters of the model in code-point order (Python compares str by
\* code point).
Alphabet ==
    <<"!", "*", "-", ".", "/", "?", "A", "D", "E", "M", "R", "\\",
      "a", "b", "c", "d", "e", "g", "h", "i", "k", "l", "m", "o", "p", "r", "s",
      "t", "u">>

Ord(c) == CHOOSE i \in 1..Len(Alphabet) : Alphabet[i] = c

\* Python's None where a record is expected, and where a str is expected
None == [none |-> TRUE]
NoneStr == <<"None">>

RECURSIVE lstrip(_, _)
\* str.lstrip(c)
lstrip(s, c) == IF s # <<>> /\ Head(s) = c THEN lstrip(Tail(s), c) ELSE s

RECURSIVE rstrip(_, _)
\* str.rstrip(c)
rstrip(s, c) ==
    IF s # <<>> /\ s[Len(s)] = c THEN rstrip(SubSeq(s, 1, Len(s) - 1), c) ELSE s

\* str.strip(c)
strip(s, c) == rstrip(lstrip(s, c), c)

\* str.startswith(c) / str.endswith(c) for a one-character c
startswith(s, c) == s # <<>> /\ Head(s) = c
endswith(s, c) == s # <<>> /\ s[Len(s)] = c

\* c in s
contains(s, c) == \E i \in 1..Len(s) : s[i] = c

RECURSIVE split(_, _)
\* str.split(c): the pieces between the occurrences of c, empty pieces kept
split(s, c) ==
    IF ~contains(s, c) THEN <<s>>
    ELSE LET i == CHOOSE k \in 1..Len(s) :
                      s[k] = c /\ \A j \in 1..(k - 1) : s[j] # c
         IN  <<SubSeq(s, 1, i - 1)>> \o split(SubSeq(s, i + 1, Len(s)), c)

RECURSIVE join(_, _)
\* c.join(parts)
join(parts, c) ==
    IF parts = <<>> THEN <<>>
    ELSE IF Len(parts) = 1 THEN parts[1]
    ELSE parts[1] \o <<c>> \o join(Tail(parts), c)

RECURSIVE replace(_, _, _)
\* str.replace(old, new) for one-character old and new
replace(s, old, new) ==
    IF s = <<>> THEN <<>>
    ELSE <<IF Head(s) = old THEN new ELSE Head(s)>> \o replace(Tail(s), old, new)

\* str.lower()
lower(s) ==
    LET upper == <<"A", "B", "C", "D", "E", "F", "G", "H", "I", "J", "K", "L", "M",
                   "N", "O", "P", "Q", "R", "S", "T", "U", "V", "W", "X", "Y", "Z">>
        small == <<"a", "b", "c", "d", "e", "f", "g", "h", "i", "j", "k", "l", "m",
                   "n", "o", "p", "q", "r", "s", "t", "u", "v", "w", "x", "y", "z">>
    IN  [i \in 1..Len(s) |->
            IF \E k \in 1..Len(upper) : upper[k] = s[i]
            THEN small[CHOOSE k \in 1..Len(upper) : upper[k] = s[i]]
            ELSE s[i]]

RECURSIVE str_lt(_, _)
\* s < t on Python str: lexicographic by code point, a proper prefix first
str_lt(s, t) ==
    IF t = <<>> THEN FALSE
    ELSE IF s = <<>> THEN TRUE
    ELSE IF Head(s) # Head(t) THEN Ord(Head(s)) < Ord(Head(t))
    ELSE str_lt(Tail(s), Tail(t))

RECURSIVE SelectParts(_, _)
\* tuple(p for p in parts if p not in drop)
SelectParts(parts, drop) ==
    IF parts = <<>> THEN <<>>
    ELSE (IF Head(parts) \in drop THEN <<>> ELSE <<Head(parts)>>)
         \o SelectParts(Tail(parts), drop)

\* PurePosixPath(s).parts: empty and "." components are collapsed by
\* pathlib; an absolute s has the root as its first part, "//" when s starts
\* with exactly two slashes and "/" otherwise.
PurePosixPath(s) ==
    LET lead == Len(s) - Len(lstrip(s, "/"))
        root == IF lead = 0 THEN <<>>
                ELSE IF lead = 2 THEN <<<<"/", "/">>>>
                ELSE <<<<"/">>>>
    IN  root \o SelectParts(split(s, "/"), {<<>>, <<".">>})

\* PurePosixPath.parents: the proper prefixes, nearest first, ending with "."
\* (the empty tuple of parts).
parents(path) == [i \in 1..Len(path) |-> SubSeq(path, 1, Len(path) - i)]

\* ---------------------------------------------------------------- fnmatch

RECURSIVE fnmatch_at(_, _, _, _)
\* The regular expression fnmatch.translate builds, matched from name[i]
\* and pat[j]: '*' is any run of characters, '?' any one character, anything
\* else itself (the model's alphabet has no '[').
fnmatch_at(name, i, pat, j) ==
    IF j > Len(pat) THEN i > Len(name)
    ELSE IF pat[j] = "*"
         THEN \E k \in i..(Len(name) + 1) : fnmatch_at(name, k, pat, j + 1)
    ELSE IF i > Len(name) THEN FALSE
    ELSE IF pat[j] = "?" THEN fnmatch_at(name, i + 1, pat, j + 1)
    ELSE name[i] = pat[j] /\ fnmatch_at(name, i + 1, pat, j + 1)

\* fnmatch.fnmatchcase(name, pat): no case normalisation
fnmatchcase(name, pat) == fnmatch_at(name, 1, pat, 1)

\* ------------------------------------------------- representations.py

\* FileRepresentation
META == "meta"
SUMMARY == "summary"
CONTENT == "content"
FileRepresentation == {META, SUMMARY, CONTENT}

\* anatomize.core.exclude.parse_ignore_line: a blank line carries no
\* pattern; a leading '!' is the negation marker where negation is allowed.
parse_ignore_line(raw, allow_negation) ==
    IF raw = <<>> THEN None
    ELSE IF allow_negation /\ startswith(raw, "!")
         THEN IF Tail(raw) = <<>> THEN None
              ELSE [pattern |-> Tail(raw), negated |-> TRUE]
    ELSE [pattern |-> raw, negated |-> FALSE]

\* Mutant of compile_one: a pattern left empty by the removal of its
\* trailing slashes is not skipped.
compile_one_keep_empty(raw, representation) ==
    LET parsed == parse_ignore_line(raw, FALSE) IN
    IF parsed = None THEN <<>>
    ELSE
    LET pat0 == parsed.pattern
        directory_only == endswith(pat0, "/")
        pat1 == IF directory_only THEN rstrip(pat0, "/") ELSE pat0
        anchored == startswith(pat1, "/")
        pat == IF anchored THEN lstrip(pat1, "/") ELSE pat1
    IN
    IF anchored /\ pat = <<>> THEN <<>>
    ELSE <<[pattern |-> pat,
            representation |-> representation,
            anchored |-> anchored,
            directory_only |-> directory_only,
            has_slash |-> contains(pat, "/")]>>

\* One iteration of the loop of compile_representation_rules: the rules (none
\* or one) that the raw pattern adds.
compile_one(raw, representation) ==
    LET parsed == parse_ignore_line(raw, FALSE) IN
    IF parsed = None THEN <<>>
    ELSE
    LET pat0 == parsed.pattern
        directory_only == endswith(pat0, "/")
        pat1 == IF directory_only THEN rstrip(pat0, "/") ELSE pat0
    IN
    IF directory_only /\ pat1 = <<>> THEN <<>>
    ELSE
    LET anchored == startswith(pat1, "/")
        pat == IF anchored THEN lstrip(pat1, "/") ELSE pat1
    IN
    IF anchored /\ pat = <<>> THEN <<>>
    ELSE <<[pattern |-> pat,
            representation |-> representation,
            anchored |-> anchored,
            directory_only |-> directory_only,
            has_slash |-> contains(pat, "/")]>>

RECURSIVE compile_representation_rules(_, _)
compile_representation_rules(patterns, representation) ==
    IF patterns = <<>> THEN <<>>
    ELSE compile_one(Head(patterns), representation)
         \o compile_representation_rules(Tail(patterns), representation)

RECURSIVE _match_parts_at_plus(_, _, _, _)
\* Mutant of _match_parts_at: "**" must take at least one segment
\* (range(si + 1, ...)).
_match_parts_at_plus(pat_parts, pi, path_parts, si) ==
    IF pi = Len(pat_parts) THEN si = Len(path_parts)
    ELSE IF pat_parts[pi + 1] = <<"*", "*">>
         THEN \E k \in (si + 1)..Len(path_parts) :
                  _match_parts_at_plus(pat_parts, pi + 1, path_parts, k)
    ELSE IF si = Len(path_parts) THEN FALSE
    ELSE IF ~fnmatchcase(path_parts[si + 1], pat_parts[pi + 1]) THEN FALSE
    ELSE _match_parts_at_plus(pat_parts, pi + 1, path_parts, si + 1)

RECURSIVE _match_parts_at(_, _, _, _)
\* Indices are 0-based as in the source: pat_parts[pi] is pat_parts[pi + 1]
\* here.
_match_parts_at(pat_parts, pi, path_parts, si) ==
    IF pi = Len(pat_parts) THEN si = Len(path_parts)
    ELSE IF pat_parts[pi + 1] = <<"*", "*">>
         THEN \E k \in si..Len(path_parts) :
                  _match_parts_at(pat_parts, pi + 1, path_parts, k)
    ELSE IF si = Len(path_parts) THEN FALSE
    ELSE IF ~fnmatchcase(path_parts[si + 1], pat_parts[pi + 1]) THEN FALSE
    ELSE _match_parts_at(pat_parts, pi + 1, path_parts, si + 1)

_match_parts(pat_parts, path_parts) == _match_parts_at(pat_parts, 0, path_parts, 0)

\* Mutant of _match_single: the anchored branch is missing, so an anchored
\* pattern is tried at every suffix offset.
_match_single_unanchored(path, rule) ==
    LET pattern == rule.pattern
        path_parts == SelectParts(path, {<<".">>})
        pat_parts == SelectParts(split(pattern, "/"), {<<>>})
    IN
    IF ~rule.has_slash /\ ~rule.anchored
    THEN IF path_parts = <<>> THEN FALSE
         ELSE fnmatchcase(path_parts[Len(path_parts)], pattern)
    ELSE \E start \in 0..Len(path_parts) :
             _match_parts(pat_parts, SubSeq(path_parts, start + 1, Len(path_parts)))

\* Mutant of _match_single: fnmatch with case folding in place of
\* fnmatchcase in the basename branch.
_match_single_nocase(path, rule) ==
    LET pattern == rule.pattern
        path_parts == SelectParts(path, {<<".">>})
        pat_parts == SelectParts(split(pattern, "/"), {<<>>})
    IN
    IF ~rule.has_slash /\ ~rule.anchored
    THEN IF path_parts = <<>> THEN FALSE
         ELSE fnmatchcase(lower(path_parts[Len(path_parts)]), lower(pattern))
    ELSE IF rule.anchored THEN _match_parts(pat_parts, path_parts)
    ELSE \E start \in 0..Len(path_parts) :
             _match_parts(pat_parts, SubSeq(path_parts, start + 1, Len(path_parts)))

_match_single(path, rule) ==
    LET pattern == rule.pattern
        path_parts == SelectParts(path, {<<".">>})
        pat_parts == SelectParts(split(pattern, "/"), {<<>>})
    IN
    IF ~rule.has_slash /\ ~rule.anchored
    THEN IF path_parts = <<>> THEN FALSE
         ELSE fnmatchcase(path_parts[Len(path_parts)], pattern)
    ELSE IF rule.anchored THEN _match_parts(pat_parts, path_parts)
    ELSE \E start \in 0..Len(path_parts) :
             _match_parts(pat_parts, SubSeq(path_parts, start + 1, Len(path_parts)))

\* Mutant of _matches: the path itself is tried whether or not it is a
\* directory.
_matches_any_kind(path, rule, is_dir) ==
    IF rule.directory_only
    THEN \/ _match_single(path, rule)
         \/ \E i \in 1..Len(path) : _match_single(parents(path)[i], rule)
    ELSE _match_single(path, rule)

_matches(path, rule, is_dir) ==
    IF rule.directory_only
    THEN \/ is_dir /\ _match_single(path, rule)
         \/ \E i \in 1..Len(path) : _match_single(parents(path)[i], rule)
    ELSE _match_single(path, rule)

\* Mutant of resolve_path: the path is not stripped of its slashes.
resolve_path_unstripped(rel_posix) ==
    IF rel_posix # <<>> THEN PurePosixPath(rel_posix) ELSE PurePosixPath(<<".">>)

\* The path RepresentationPolicy.resolve matches against (lines 133-134).
resolve_path(rel_posix) ==
    LET stripped == strip(rel_posix, "/")
    IN  IF stripped # <<>> THEN PurePosixPath(stripped) ELSE PurePosixPath(<<".">>)

RECURSIVE resolve_first(_, _, _, _)
\* Mutant of resolve_loop: the loop returns at the first matching rule.
resolve_first(rules, path, is_dir, rep) ==
    IF rules = <<>> THEN rep
    ELSE IF _matches(path, Head(rules), is_dir) THEN Head(rules).representation
    ELSE resolve_first(Tail(rules), path, is_dir, rep)

RECURSIVE resolve_loop(_, _, _, _)
\* The loop of RepresentationPolicy.resolve over the rules still to try, rep
\* being the representation so far.
resolve_loop(rules, path, is_dir, rep) ==
    IF rules = <<>> THEN rep
    ELSE resolve_loop(Tail(rules), path, is_dir,
                      IF _matches(path, Head(rules), is_dir)
                      THEN Head(rules).representation
                      ELSE rep)

\* RepresentationPolicy(rules).resolve(rel_posix, is_dir=..., default=...)
resolve(rules, rel_posix, is_dir, default) ==
    resolve_loop(rules, resolve_path(rel_posix), is_dir, default)

RECURSIVE policy_rules(_)
\* The rule list of a policy: each run of consecutive registered patterns
\* with one representation is one call of compile_representation_rules, and
\* the lists are concatenated in registration order.
policy_rules(raw) ==
    IF raw = <<>> THEN <<>>
    ELSE LET rep == raw[1].representation
             n == CHOOSE k \in 1..Len(raw) :
                      /\ \A j \in 1..k : raw[j].representation = rep
                      /\ k < Len(raw) => raw[k + 1].representation # rep
         IN  compile_representation_rules([j \in 1..n |-> raw[j].pattern], rep)
             \o policy_rules(SubSeq(raw, n + 1, Len(raw)))

\* ------------------------------------------- anatomize.core.exclude

\* The rule the Excluder compiles from one (pattern, source) pair: the
\* facets of compile_representation_rules, plus negation and the source.
ignore_rule(pattern, source) ==
    LET parsed == parse_ignore_line(pattern, TRUE) IN
    IF parsed = None THEN <<>>
    ELSE
    LET c == compile_one(parsed.pattern, META) IN
    IF c = <<>> THEN <<>>
    ELSE <<[pattern |-> c[1].pattern,
            anchored |-> c[1].anchored,
            directory_only |-> c[1].directory_only,
            has_slash |-> c[1].has_slash,
            negated |-> parsed.negated,
            source |-> source]>>

RECURSIVE Excluder(_)
\* Excluder(patterns): the ordered rules of the ordered (pattern, source)
\* pairs.
Excluder(patterns) ==
    IF patterns = <<>> THEN <<>>
    ELSE ignore_rule(patterns[1].pattern, patterns[1].source)
         \o Excluder(Tail(patterns))

RECURSIVE explain_any(_, _, _, _)
\* Mutant of explain_loop: negation is ignored, every matching rule excludes.
explain_any(rules, path, is_dir, out) ==
    IF rules = <<>> THEN out
    ELSE explain_any(Tail(rules), path, is_dir,
                     IF _matches(path, Head(rules), is_dir)
                     THEN [excluded |-> TRUE, matched |-> Head(rules)]
                     ELSE out)

RECURSIVE explain_loop(_, _, _, _)
\* The loop of Excluder.explain: every matching rule sets the exclusion
\* state, a negated one clears it.
explain_loop(rules, path, is_dir, out) ==
    IF rules = <<>> THEN out
    ELSE explain_loop(Tail(rules), path, is_dir,
                      IF _matches(path, Head(rules), is_dir)
                      THEN [excluded |-> ~Head(rules).negated, matched |-> Head(rules)]
                      ELSE out)

\* Excluder.explain(rel_posix, is_dir=...): (excluded, matched), matched
\* being the deciding rule of an exclusion and None otherwise.
explain(rules, rel_posix, is_dir) ==
    LET out == explain_loop(rules, resolve_path(rel_posix), is_dir,
                            [excluded |-> FALSE, matched |-> None])
    IN  IF out.excluded THEN out ELSE [excluded |-> FALSE, matched |-> None]

\* ------------------------------------------------------ the filesystem
\* fs maps the real path of every entry under the root (a non-empty sequence
\* of names) to its node: [kind |-> "dir"], [kind |-> "file", size, tail,
\* readable], [kind |-> "special", ...] (a device or socket, with the fields
\* of a file) or [kind |-> "link", target], target being a real path.  The
\* root is the empty path and is a directory.  The bytes of a file are
\* size - Len(tail) bytes "A" (65) followed by the bytes of tail; readable
\* tells whether opening and reading the file succeeds.

\* anatomize.core.policy.SymlinkPolicy
NONE == "none"
FILES == "files"
DIRS == "dirs"
ALL == "all"
SymlinkPolicy == {NONE, FILES, DIRS, ALL}

Front(q) == SubSeq(q, 1, Len(q) - 1)
Last(q) == q[Len(q)]

\* The kind of the node at real path p, "missing" when there is none.
KindAt(f, p) ==
    IF p = <<>> THEN "dir"
    ELSE IF p \in DOMAIN f THEN f[p].kind
    ELSE "missing"

RECURSIVE namei_unlimited(_, _, _, _)
\* Mutant of namei: any number of links is followed.
namei_unlimited(f, cur, rest, hops) ==
    IF rest = <<>> THEN [ok |-> TRUE, path |-> cur]
    ELSE IF KindAt(f, cur) # "dir" THEN [ok |-> FALSE, path |-> cur]
    ELSE LET cand == Append(cur, Head(rest)) IN
         IF KindAt(f, cand) = "link"
         THEN IF KindAt(f, f[cand].target) \in {"dir", "file", "special"}
              THEN namei_unlimited(f, f[cand].target, Tail(rest), hops + 1)
              ELSE [ok |-> FALSE, path |-> cand]
         ELSE namei_unlimited(f, cand, Tail(rest), hops)

RECURSIVE namei(_, _, _, _)
\* Path resolution as the kernel does it: from the real directory cur, walk
\* the names of rest, following every symbolic link met; hops counts the
\* links followed so far, and one link more than MaxSymlinkHops fails the
\* resolution (ELOOP).  [ok, path].
namei(f, cur, rest, hops) ==
    IF rest = <<>> THEN [ok |-> TRUE, path |-> cur]
    ELSE IF KindAt(f, cur) # "dir" THEN [ok |-> FALSE, path |-> cur]
    ELSE LET cand == Append(cur, Head(rest)) IN
         IF KindAt(f, cand) = "link"
         THEN IF hops < MaxSymlinkHops
                   /\ KindAt(f, f[cand].target) \in {"dir", "file", "special"}
              THEN namei(f, f[cand].target, Tail(rest), hops + 1)
              ELSE [ok |-> FALSE, path |-> cand]
         ELSE namei(f, cand, Tail(rest), hops)

\* The resolution of the names of rest from the real directory cur.
realpath(f, cur, rest) == namei(f, cur, rest, 0)

\* The kind of what the walked path entry leads to, links followed.
StatKind(f, entry) ==
    LET r == realpath(f, <<>>, entry) IN
    IF r.ok THEN KindAt(f, r.path) ELSE "missing"

\* Path.is_symlink(): the walked path's last component is itself a link.
is_symlink(f, entry) ==
    /\ entry # <<>>
    /\ LET r == realpath(f, <<>>, Front(entry)) IN
       r.ok /\ KindAt(f, Append(r.path, Last(entry))) = "link"

\* Path.is_dir() and Path.is_file(): links followed, False when the path does
\* not resolve.
is_dir(f, entry) == StatKind(f, entry) = "dir"
is_file(f, entry) == StatKind(f, entry) = "file"

\* Path.resolve()
resolved(f, entry) == realpath(f, <<>>, entry).path

\* The names Path.iterdir() yields for a directory, in no order.
iterdir(f, dir) ==
    LET r == realpath(f, <<>>, dir) IN
    {Last(q) : q \in {q \in DOMAIN f : Front(q) = r.path}}

\* Path.stat().st_size
st_size(f, entry) == f[resolved(f, entry)].size

\* sniff_bytes: int = 8192
sniff_bytes == 8192

\* Mutant of read: the whole file is read.
read_all(nd, n) ==
    [pad |-> nd.size - Len(nd.tail), tail |-> nd.tail]

\* f.read(sniff_bytes): the first n bytes of the file, as the number of
\* leading "A" bytes and the bytes after them.
read(nd, n) ==
    LET pad == nd.size - Len(nd.tail) IN
    IF pad >= n THEN [pad |-> n, tail |-> <<>>]
    ELSE IF Len(nd.tail) <= n - pad THEN [pad |-> pad, tail |-> nd.tail]
    ELSE [pad |-> pad, tail |-> SubSeq(nd.tail, 1, n - pad)]

RECURSIVE decodes(_)
\* data.decode("utf-8") does not raise UnicodeDecodeError.  Bytes below 128
\* stand alone; a lead byte 0xC2..0xDF takes one continuation byte
\* 0x80..0xBF.  Leads of longer sequences are not among the bytes modelled;
\* every other byte is invalid where a character must start.
decodes(b) ==
    IF b = <<>> THEN TRUE
    ELSE IF b[1] < 128 THEN decodes(Tail(b))
    ELSE IF b[1] >= 194 /\ b[1] <= 223
    THEN /\ Len(b) >= 2
         /\ b[2] >= 128 /\ b[2] <= 191
         /\ decodes(SubSeq(b, 3, Len(b)))
    ELSE FALSE

\* _is_binary_file(path): True when open or read raises OSError, when the
\* bytes read hold a NUL byte, or when they do not decode as UTF-8.
_is_binary_file(f, entry) ==
    LET nd == f[resolved(f, entry)] IN
    IF ~nd.readable THEN TRUE
    ELSE LET data == read(nd, sniff_bytes) IN
         IF \E i \in 1..Len(data.tail) : data.tail[i] = 0 THEN TRUE
         ELSE ~decodes(data.tail)

\* All arrangements of a finite set as a sequence.
Perms(T) ==
    {q \in [1..Cardinality(T) -> T] : \A i, j \in 1..Cardinality(T) : q[i] = q[j] => i = j}

RECURSIVE insert_entry(_, _)
\* name put into the sorted sequence q after every element that is not
\* greater (sorted is stable).
insert_entry(q, name) ==
    IF q = <<>> THEN <<name>>
    ELSE IF str_lt(name, Head(q)) THEN <<name>> \o q
    ELSE <<Head(q)>> \o insert_entry(Tail(q), name)

\* Mutant of sorted_entries: the directory is walked in the order the
\* operating system lists it.
unsorted_entries(listing) == listing

RECURSIVE sorted_entries(_)
\* sorted(abs_dir.iterdir(), key=lambda p: p.name)
sorted_entries(listing) ==
    IF listing = <<>> THEN <<>>
    ELSE insert_entry(sorted_entries(Front(listing)), Last(listing))

\* (0 if d.is_dir else 1, d.relative_posix) compared as Python tuples
sort_key_lt(a, b) ==
    IF a.is_dir # b.is_dir THEN a.is_dir
    ELSE str_lt(a.relative_posix, b.relative_posix)

RECURSIVE insert_result(_, _)
\* d put into the sorted sequence q after every element whose key is not
\* greater (list.sort is stable).
insert_result(q, d) ==
    IF q = <<>> THEN <<d>>
    ELSE IF sort_key_lt(d, Head(q)) THEN <<d>> \o q
    ELSE <<Head(q)>> \o insert_result(Tail(q), d)

RECURSIVE sort_results(_)
\* results.sort(key=lambda d: (0 if d.is_dir else 1, d.relative_posix))
sort_results(res) ==
    IF res = <<>> THEN <<>>
    ELSE insert_result(sort_results(Front(res)), Last(res))

\* anatomize.pack.match.GlobMatcher(patterns).matches_any(rel_posix,
\* is_dir=...): some pattern, compiled like a representation pattern, matches.
matches_any(patterns, rel_posix, is_dir_) ==
    LET rules == compile_representation_rules(patterns, META) IN
    \E i \in 1..Len(rules) : _matches(resolve_path(rel_posix), rules[i], is_dir_)

\* ------------------------------------------------------- the matcher run
\* compile_representation_rules on one raw pattern, then _match_parts,
\* _match_single and _matches of every compiled rule on one path.

\* Segment names of the paths handed to the matcher.
SegPool == {<<"a">>, <<"b">>, <<"a", "b">>, <<"A">>}

\* Raw patterns handed to compile_representation_rules.
PatternPool ==
    { <<>>,                                   \* ""
      <<"/">>,                                \* "/"
      <<"a">>,                                \* "a"
      <<"*", "b">>,                           \* "*b"
      <<"?">>,                                \* "?"
      <<"*", "*">>,                           \* "**"
      <<"/", "a">>,                           \* "/a"
      <<"a", "/", "b">>,                      \* "a/b"
      <<"a", "/", "*">>,                      \* "a/*"
      <<"/", "a", "/", "b">>,                 \* "/a/b"
      <<"a", "/", "*", "*", "/", "b">>,       \* "a/**/b"
      <<"*", "*", "/", "b">>,                 \* "**/b"
      <<"a", "/", "*", "*">>,                 \* "a/**"
      <<"b", "/">>,                           \* "b/"
      <<"/", "a", "/">>,                      \* "/a/"
      <<"a", "/", "b", "/">>,                 \* "a/b/"
      <<"/", "*", "*", "/">>,                 \* "/**/"
      <<"a", "/", "/", "b">> }                \* "a//b"

\* All sequences over S of length at most n.
SeqsUpTo(S, n) == UNION {[1..k -> S] : k \in 0..n}

\* The variables of the runs that a specification does not make.
OutlineIdle ==
    /\ obj = None /\ limits = None /\ queue = <<>> /\ paths = <<>> /\ steps = <<>>
    /\ key_count = 0 /\ item_count = 0

SummaryIdle ==
    /\ s_suffix = <<>> /\ s_text = <<>> /\ s_rel = <<>> /\ s_cfg = None
    /\ s_lines = <<>> /\ s_headings = <<>> /\ s_out = None

DiscoverIdle ==
    /\ fs = <<>> /\ cfg = None /\ stack = <<>> /\ results = <<>> /\ trace = None
    /\ d_err = None /\ log = <<>> /\ manifest = None /\ run = 0 /\ first = None

ExplainIdle ==
    /\ x_raw = <<>> /\ x_rel = <<>> /\ x_is_dir = FALSE
    /\ x_rules = <<>> /\ x_hits = <<>> /\ x_out = None

MatchIdle ==
    /\ m_raw = <<>> /\ m_rep = META /\ m_rel = <<>> /\ m_is_dir = FALSE
    /\ m_rules = <<>> /\ m_parts = <<>> /\ m_single = <<>> /\ m_match = <<>>

ResolveIdle ==
    /\ r_raw = <<>> /\ r_rel = <<>> /\ r_is_dir = FALSE /\ r_default = META
    /\ r_rules = <<>> /\ r_hits = <<>> /\ r_rep = None

MatchInit ==
    /\ DiscoverIdle
    /\ OutlineIdle
    /\ SummaryIdle
    /\ ResolveIdle
    /\ ExplainIdle
    /\ pc = "m_compile"
    /\ m_raw \in PatternPool
    /\ m_rep \in {SUMMARY}
    /\ m_rel \in {join(segs, "/") : segs \in SeqsUpTo(SegPool, MaxSegs)}
    /\ m_is_dir \in BOOLEAN
    /\ m_rules = <<>>
    /\ m_parts = <<>>
    /\ m_single = <<>>
    /\ m_match = <<>>

MatchCompile ==
    /\ pc = "m_compile"
    /\ m_rules' = compile_representation_rules(<<m_raw>>, m_rep)
    /\ pc' = "m_apply"
    /\ UNCHANGED <<m_raw, m_rep, m_rel, m_is_dir, m_parts, m_single, m_match>>
    /\ UNCHANGED <<r_vars, x_vars, d_vars, o_vars, s_vars>>

MatchApply ==
    /\ pc = "m_apply"
    /\ LET path == resolve_path(m_rel) IN
       /\ m_parts' = [i \in 1..Len(m_rules) |->
                        _match_parts(SelectParts(split(m_rules[i].pattern, "/"), {<<>>}),
                                     path)]
       /\ m_single' = [i \in 1..Len(m_rules) |-> _match_single(path, m_rules[i])]
       /\ m_match' = [i \in 1..Len(m_rules) |-> _matches(path, m_rules[i], m_is_dir)]
    /\ pc' = "m_done"
    /\ UNCHANGED <<m_raw, m_rep, m_rel, m_is_dir, m_rules>>
    /\ UNCHANGED <<r_vars, x_vars, d_vars, o_vars, s_vars>>

MatchNext == MatchCompile \/ MatchApply

SpecMatch == MatchInit /\ [][MatchNext]_vars

\* ---------------------------------------------- properties of the matcher

\* The segments of a raw pattern: the non-empty pieces between its slashes.
RefSegs(raw) == SelectParts(split(raw, "/"), {<<>>})

\* The pattern of a raw line once the anchor and the directory marker are
\* taken off.
RefPattern(raw) == strip(raw, "/")

\* segs can be consumed whole by pat: cut[i] is the number of segments eaten
\* by the first i pattern segments; a "**" eats any number, every other
\* pattern segment eats exactly one segment, which it wildcard-matches.
Consumes(pat, segs) ==
    \E cut \in [0..Len(pat) -> 0..Len(segs)] :
        /\ cut[0] = 0
        /\ cut[Len(pat)] = Len(segs)
        /\ \A i \in 1..Len(pat) :
              IF pat[i] = <<"*", "*">>
              THEN cut[i] >= cut[i - 1]
              ELSE /\ cut[i] = cut[i - 1] + 1
                   /\ fnmatchcase(segs[cut[i]], pat[i])

\* The last k segments dropped from the front: segs[k:]
Suffix(segs, k) == SubSeq(segs, k + 1, Len(segs))

m_segs == PurePosixPath(m_rel)

IsWildcardFree(pat) == \A i \in 1..Len(pat) : pat[i] \notin {"*", "?"}

\* C3: anchoring.  A rule compiled from a pattern with a leading '/' matches
\* exactly when the pattern, aligned to the first segment, consumes the whole
\* path; a pattern with no leading '/' matches at any depth: a slash-free one
\* matches the last segment, one with an internal '/' matches when it
\* consumes some suffix of the segment sequence.  "/a" matches a and not
\* b/a, "a" matches both, "a/*" matches ab/a/b.
Thm_C3_Anchoring ==
    pc = "m_done" =>
        /\ \A i \in 1..Len(m_rules) :
              IF startswith(m_raw, "/")
              THEN m_single[i] <=> Consumes(RefSegs(m_raw), m_segs)
              ELSE IF contains(RefPattern(m_raw), "/")
              THEN m_single[i] <=>
                       \E k \in 0..Len(m_segs) :
                           Consumes(RefSegs(m_raw), Suffix(m_segs, k))
              ELSE m_single[i] <=>
                       /\ m_segs # <<>>
                       /\ fnmatchcase(m_segs[Len(m_segs)], RefPattern(m_raw))
        /\ (m_raw = <<"/", "a">> /\ m_segs = << <<"a">> >>) => m_single = <<TRUE>>
        /\ (m_raw = <<"/", "a">> /\ m_segs = << <<"b">>, <<"a">> >>)
               => m_single = <<FALSE>>
        /\ (m_raw = <<"a">> /\ m_segs \in {<< <<"a">> >>, << <<"b">>, <<"a">> >>})
               => m_single = <<TRUE>>
        /\ (m_raw = <<"a", "/", "*">> /\ m_segs = << <<"a", "b">>, <<"a">>, <<"b">> >>)
               => m_single = <<TRUE>>

\* The anchored rule "/a" was tried on the nested path b/a and did not match.
Wit_C3_Anchoring ==
    /\ pc = "m_done"
    /\ m_raw = <<"/", "a">>
    /\ m_segs = << <<"b">>, <<"a">> >>
    /\ m_single = <<FALSE>>

\* C4: a directory-only rule matches a path exactly when the path is a
\* directory that matches the pattern, or some proper ancestor of the path
\* matches the pattern; so whatever lies under a matched directory matches.
Thm_C4_DirectoryOnly ==
    pc = "m_done" =>
        \A i \in 1..Len(m_rules) :
            endswith(m_raw, "/") =>
                /\ m_rules[i].directory_only
                /\ m_match[i] <=>
                       \/ m_is_dir /\ m_single[i]
                       \/ \E k \in 0..(Len(m_segs) - 1) :
                              _match_single(SubSeq(m_segs, 1, k), m_rules[i])
                /\ \A k \in 0..(Len(m_segs) - 1) :
                       _matches(SubSeq(m_segs, 1, k), m_rules[i], TRUE) => m_match[i]

\* Rule "b/" on the file b/a: the file's own name does not match, its parent
\* does, and the rule matches.
Wit_C4_DirectoryOnly ==
    /\ pc = "m_done"
    /\ m_raw = <<"b", "/">>
    /\ m_segs = << <<"b">>, <<"a">> >>
    /\ ~m_is_dir
    /\ m_single = <<FALSE>>
    /\ m_match = <<TRUE>>

\* C5: in full-path mode the pattern's segments match a segment sequence
\* iff the whole sequence can be consumed, "**" taking zero or more
\* segments and every other pattern segment exactly one.  "a/**/b" takes
\* a/b, a/ab/b and a/ab/A/b and not a/b/ab.
Thm_C5_DoubleStar ==
    pc = "m_done" =>
        \A i \in 1..Len(m_rules) :
            (m_rules[i].has_slash \/ m_rules[i].anchored) =>
                /\ m_parts[i] <=> Consumes(RefSegs(m_raw), m_segs)
                /\ m_rules[i].anchored => (m_single[i] <=> m_parts[i])
                /\ m_raw = <<"a", "/", "*", "*", "/", "b">> =>
                      /\ m_segs \in { << <<"a">>, <<"b">> >>,
                                      << <<"a">>, <<"a", "b">>, <<"b">> >>,
                                      << <<"a">>, <<"a", "b">>, <<"A">>, <<"b">> >> }
                             => m_parts[i]
                      /\ m_segs = << <<"a">>, <<"b">>, <<"a", "b">> >> => ~m_parts[i]

\* "a/**/b" matched a/ab/A/b, the "**" taking two segments.
Wit_C5_DoubleStar ==
    /\ pc = "m_done"
    /\ m_raw = <<"a", "/", "*", "*", "/", "b">>
    /\ m_segs = << <<"a">>, <<"a", "b">>, <<"A">>, <<"b">> >>
    /\ m_parts = <<TRUE>>

\* C6: in basename-only mode _match_single depends on the last segment
\* alone: it holds iff that segment wildcard-matches the pattern, with no
\* case folding; a pattern without wildcard characters matches iff the last
\* segment equals it; the traversal root is never matched.
Thm_C6_Basename ==
    pc = "m_done" =>
        \A i \in 1..Len(m_rules) :
            (~m_rules[i].has_slash /\ ~m_rules[i].anchored) =>
                /\ m_segs = <<>> => ~m_single[i]
                /\ m_segs # <<>> =>
                      /\ m_single[i] <=>
                             fnmatchcase(m_segs[Len(m_segs)], m_rules[i].pattern)
                      /\ IsWildcardFree(m_rules[i].pattern) =>
                             (m_single[i] <=> m_segs[Len(m_segs)] = m_rules[i].pattern)

\* Pattern "a" was tried on b/A, whose last segment differs only in case,
\* and did not match.
Wit_C6_Basename ==
    /\ pc = "m_done"
    /\ m_raw = <<"a">>
    /\ m_segs = << <<"b">>, <<"A">> >>
    /\ m_single = <<FALSE>>

\* ------------------------------------------------------- the resolve run
\* A policy is built from registered patterns, then resolve is called once.

s_README_md == <<"R", "E", "A", "D", "M", "E", ".", "m", "d">>
s_other_md == <<"o", "t", "h", "e", "r", ".", "m", "d">>
s_docs == <<"d", "o", "c", "s">>

\* Segment names of the paths handed to resolve.
ResolveSegPool == {s_README_md, s_other_md, s_docs}

\* Registered (pattern, representation) pairs.
RulePool ==
    { [pattern |-> <<"*", ".", "m", "d">>, representation |-> SUMMARY],
      [pattern |-> <<"R", "E", "A", "D", "M", "E", ".", "m", "d">>, representation |-> CONTENT],
      [pattern |-> <<"/", "R", "E", "A", "D", "M", "E", ".", "m", "d">>, representation |-> SUMMARY],
      [pattern |-> <<"d", "o", "c", "s", "/">>, representation |-> META],
      [pattern |-> <<"d", "o", "c", "s", "/", "*", ".", "m", "d">>, representation |-> CONTENT],
      [pattern |-> <<"/">>, representation |-> CONTENT],
      [pattern |-> <<"/", "/">>, representation |-> META],
      [pattern |-> <<"/", "d", "o", "c", "s", "/">>, representation |-> SUMMARY] }

ResolveInit ==
    /\ DiscoverIdle
    /\ MatchIdle
    /\ OutlineIdle
    /\ SummaryIdle
    /\ ExplainIdle
    /\ pc = "r_compile"
    /\ r_raw \in SeqsUpTo(RulePool, MaxRules)
    /\ r_rel \in {lead \o p \o trail :
                     p \in {join(segs, "/") : segs \in SeqsUpTo(ResolveSegPool, MaxResolveSegs)}
                               \cup {<<".">>},
                     lead \in {<<>>, <<"/">>}, trail \in {<<>>, <<"/">>}}
    /\ r_is_dir \in BOOLEAN
    /\ r_default \in {META, CONTENT}
    /\ r_rules = <<>>
    /\ r_hits = <<>>
    /\ r_rep = None

ResolveCompile ==
    /\ pc = "r_compile"
    /\ r_rules' = policy_rules(r_raw)
    /\ pc' = "r_resolve"
    /\ UNCHANGED <<r_raw, r_rel, r_is_dir, r_default, r_hits, r_rep>>
    /\ UNCHANGED <<m_vars, x_vars, d_vars, o_vars, s_vars>>

Resolve ==
    /\ pc = "r_resolve"
    /\ r_hits' = [i \in 1..Len(r_rules) |->
                    _matches(resolve_path(r_rel), r_rules[i], r_is_dir)]
    /\ r_rep' = resolve(r_rules, r_rel, r_is_dir, r_default)
    /\ pc' = "r_done"
    /\ UNCHANGED <<r_raw, r_rel, r_is_dir, r_default, r_rules>>
    /\ UNCHANGED <<m_vars, x_vars, d_vars, o_vars, s_vars>>

ResolveNext == ResolveCompile \/ Resolve

SpecResolve == ResolveInit /\ [][ResolveNext]_vars

\* The largest element of a non-empty set of numbers.
MaxOf(S) == CHOOSE x \in S : \A y \in S : y <= x

\* C1: resolve returns the representation of the last rule of the policy that
\* matches the path, and the default when no rule matches.  With "*.md" ->
\* summary then "README.md" -> content, README.md resolves to content and
\* other.md to summary.
Thm_C1_LastMatchWins ==
    pc = "r_done" =>
        /\ LET hit == {i \in 1..Len(r_rules) : r_hits[i]} IN
           IF hit = {} THEN r_rep = r_default
           ELSE r_rep = r_rules[MaxOf(hit)].representation
        /\ r_raw = <<[pattern |-> <<"*", ".", "m", "d">>, representation |-> SUMMARY],
                     [pattern |-> <<"R", "E", "A", "D", "M", "E", ".", "m", "d">>, representation |-> CONTENT]>> =>
              /\ r_rel = s_README_md => r_rep = CONTENT
              /\ r_rel = s_other_md => r_rep = SUMMARY

\* Two rules matched README.md, "*.md" -> summary first and "README.md" ->
\* content last, and resolve returned content.
Wit_C1_LastMatchWins ==
    /\ pc = "r_done"
    /\ r_raw = <<[pattern |-> <<"*", ".", "m", "d">>, representation |-> SUMMARY],
                 [pattern |-> <<"R", "E", "A", "D", "M", "E", ".", "m", "d">>, representation |-> CONTENT]>>
    /\ r_rel = s_README_md
    /\ r_hits = <<TRUE, TRUE>>
    /\ r_rep = CONTENT

\* ------------------------------------------------------- the explain run
\* An Excluder is built from (pattern, source) pairs, then explain is called
\* once.

s_keep_log == <<"k", "e", "e", "p", ".", "l", "o", "g">>
s_other_log == <<"o", "t", "h", "e", "r", ".", "l", "o", "g">>
s_build == <<"b", "u", "i", "l", "d">>

\* Segment names of the paths handed to explain.
ExplainSegPool == {s_keep_log, s_other_log, s_build}

\* (pattern, source) pairs handed to Excluder.
IgnorePool ==
    { [pattern |-> <<"*", ".", "l", "o", "g">>, source |-> "default"],
      [pattern |-> <<"!", "k", "e", "e", "p", ".", "l", "o", "g">>, source |-> "cli"],
      [pattern |-> <<"b", "u", "i", "l", "d", "/">>, source |-> "default"],
      [pattern |-> <<"!", "/", "b", "u", "i", "l", "d", "/", "*", ".", "l", "o", "g">>, source |-> "cli"],
      [pattern |-> <<"!">>, source |-> "cli"] }

ExplainInit ==
    /\ DiscoverIdle
    /\ MatchIdle
    /\ OutlineIdle
    /\ SummaryIdle
    /\ ResolveIdle
    /\ pc = "x_compile"
    /\ x_raw \in SeqsUpTo(IgnorePool, MaxIgnoreRules)
    /\ x_rel \in {join(segs, "/") : segs \in SeqsUpTo(ExplainSegPool, MaxExplainSegs)}
    /\ x_is_dir \in BOOLEAN
    /\ x_rules = <<>>
    /\ x_hits = <<>>
    /\ x_out = None

ExplainCompile ==
    /\ pc = "x_compile"
    /\ x_rules' = Excluder(x_raw)
    /\ pc' = "x_explain"
    /\ UNCHANGED <<x_raw, x_rel, x_is_dir, x_hits, x_out>>
    /\ UNCHANGED <<m_vars, r_vars, d_vars, o_vars, s_vars>>

Explain ==
    /\ pc = "x_explain"
    /\ x_hits' = [i \in 1..Len(x_rules) |->
                    _matches(resolve_path(x_rel), x_rules[i], x_is_dir)]
    /\ x_out' = explain(x_rules, x_rel, x_is_dir)
    /\ pc' = "x_done"
    /\ UNCHANGED <<x_raw, x_rel, x_is_dir, x_rules>>
    /\ UNCHANGED <<m_vars, r_vars, d_vars, o_vars, s_vars>>

ExplainNext == ExplainCompile \/ Explain

SpecExplain == ExplainInit /\ [][ExplainNext]_vars

\* C2: explain decides by the last matching rule: excluded iff that rule is
\* not a negation, included when no rule matches; an exclusion names the rule
\* that decided it.  With "*.log" then "!keep.log", keep.log is included and
\* other.log is excluded.
Thm_C2_ExcluderLastMatch ==
    pc = "x_done" =>
        /\ LET hit == {i \in 1..Len(x_rules) : x_hits[i]} IN
           IF hit = {} THEN ~x_out.excluded
           ELSE /\ x_out.excluded <=> ~x_rules[MaxOf(hit)].negated
                /\ x_out.excluded => x_out.matched = x_rules[MaxOf(hit)]
        /\ x_raw = <<[pattern |-> <<"*", ".", "l", "o", "g">>, source |-> "default"],
                     [pattern |-> <<"!", "k", "e", "e", "p", ".", "l", "o", "g">>, source |-> "cli"]>> =>
              /\ x_rel = s_keep_log => ~x_out.excluded
              /\ x_rel = s_other_log => x_out.excluded

\* "*.log" and then "!keep.log" both matched keep.log, and explain answered
\* "included".
Wit_C2_ExcluderLastMatch ==
    /\ pc = "x_done"
    /\ x_raw = <<[pattern |-> <<"*", ".", "l", "o", "g">>, source |-> "default"],
                 [pattern |-> <<"!", "k", "e", "e", "p", ".", "l", "o", "g">>, source |-> "cli"]>>
    /\ x_rel = s_keep_log
    /\ x_hits = <<TRUE, TRUE>>
    /\ ~x_out.excluded

\* ------------------------------------------------------------ discovery
\* discover_paths, one action per call of walk_dir's loop body.  A frame of
\* stack is a walk_dir call: the directory as walked from the root, its
\* relative path, and the sorted entries the loop has still to visit.

DiscoveredPath(absolute_path, relative_posix, is_dir_, is_symlink_, size_bytes, is_binary) ==
    [absolute_path |-> absolute_path,
     relative_posix |-> relative_posix,
     is_dir |-> is_dir_,
     is_symlink |-> is_symlink_,
     size_bytes |-> size_bytes,
     is_binary |-> is_binary]

DiscoveryTraceItem(path, is_dir_, decision, reason, matched_pattern, matched_source) ==
    [path |-> path,
     is_dir |-> is_dir_,
     decision |-> decision,
     reason |-> reason,
     matched_pattern |-> matched_pattern,
     matched_source |-> matched_source]

\* trace.append(item) when trace is not None
trace_append(tr, item) ==
    IF tr = None THEN None ELSE [items |-> Append(tr.items, item)]

\* `if include_patterns` (None and the empty list are falsy)
include_given(include_patterns) ==
    include_patterns # None /\ include_patterns.list # <<>>

\* Mutant of walk_excluded: only files are skipped on an exclusion, as in the
\* include branch.
walk_excluded_files_only(excluded, is_dir_) == excluded /\ ~is_dir_

\* `if excluded:` (line 137): the entry is skipped, and with it, for a
\* directory, the recursion.
walk_excluded(excluded, is_dir_) == excluded

\* Mutant of walk_filtered: a directory that no include pattern matches is
\* skipped like a file.
walk_filtered_dirs_too(include_patterns, rel_posix, is_dir_) ==
    /\ include_given(include_patterns)
    /\ ~matches_any(include_patterns.list, rel_posix, is_dir_)

\* The include branch reaches its `continue` (lines 154-171): an allowlist
\* is given, no pattern of it matches the entry, and the entry is not a
\* directory.
walk_filtered(include_patterns, rel_posix, is_dir_) ==
    /\ include_given(include_patterns)
    /\ ~matches_any(include_patterns.list, rel_posix, is_dir_)
    /\ ~is_dir_

\* Mutant of exceeds_max: a file of exactly max_file_bytes is refused too.
exceeds_max_or_equal(size, max_file_bytes) ==
    max_file_bytes > 0 /\ size >= max_file_bytes

\* Mutant of exceeds_max: the limit is never enforced.
exceeds_max_never(size, max_file_bytes) == FALSE

\* `if max_file_bytes > 0 and size > max_file_bytes` (line 188)
exceeds_max(size, max_file_bytes) ==
    max_file_bytes > 0 /\ size > max_file_bytes

\* The call walk_dir(abs_dir, rel_dir_posix) at its first statement, the
\* operating system having listed the directory in the order listing.
walk_dir(abs_dir, rel_dir_posix, listing) ==
    [abs_dir |-> abs_dir,
     rel_dir_posix |-> rel_dir_posix,
     entries |-> sorted_entries(listing)]

RECURSIVE unwind(_)
\* The calls of walk_dir whose loop is over return.
unwind(st) ==
    IF st # <<>> /\ Last(st).entries = <<>> THEN unwind(Front(st)) ELSE st

\* History records.
Listed(dir) == [op |-> "list", path |-> dir, rel |-> <<>>, is_dir |-> TRUE]
Explained(entry, rel_posix, is_dir_) ==
    [op |-> "explain", path |-> entry, rel |-> rel_posix, is_dir |-> is_dir_]

\* Mutant of walk_continue: with a trace list the final sort is left out.
walk_continue_traced(st, res, tr, lg) ==
    /\ stack' = unwind(st)
    /\ trace' = tr
    /\ log' = lg
    /\ d_err' = None
    /\ IF unwind(st) = <<>>
       THEN results' = (IF tr = None THEN sort_results(res) ELSE res) /\ pc' = "done"
       ELSE results' = res /\ pc' = "walk"

\* The loop goes on with the calls st; when the outermost walk_dir has
\* returned, discover_paths sorts results and returns.
walk_continue(st, res, tr, lg) ==
    /\ stack' = unwind(st)
    /\ trace' = tr
    /\ log' = lg
    /\ d_err' = None
    /\ IF unwind(st) = <<>>
       THEN results' = sort_results(res) /\ pc' = "done"
       ELSE results' = res /\ pc' = "walk"

\* An exception leaves discover_paths: no list is returned.
walk_raise(type, rel_posix, lg) ==
    /\ stack' = <<>>
    /\ results' = <<>>
    /\ trace' = trace
    /\ log' = lg
    /\ d_err' = [type |-> type, path |-> rel_posix]
    /\ pc' = "error"

\* discover_paths up to the first iteration of the root's walk_dir.
discover_start ==
    /\ pc = "start"
    /\ \E listing \in Perms(iterdir(fs, <<>>)) :
          walk_continue(<<walk_dir(<<>>, <<>>, listing)>>,
                        <<DiscoveredPath(<<>>, <<".">>, TRUE, is_symlink(fs, <<>>), 0, FALSE)>>,
                        trace,
                        <<Listed(<<>>)>>)
    /\ UNCHANGED <<fs, cfg, manifest, run, first>>
    /\ UNCHANGED <<m_vars, r_vars, x_vars, o_vars, s_vars>>

\* One iteration of the loop of walk_dir (lines 120-212), and the returns
\* and final sort that follow the last one.
walk_dir_step ==
    /\ pc = "walk"
    /\ LET top == Last(stack)
           name == Head(top.entries)
           entry == Append(top.abs_dir, name)
           sym == is_symlink(fs, entry)
           rel == IF top.rel_dir_posix # <<>>
                  THEN top.rel_dir_posix \o <<"/">> \o name
                  ELSE name
           rel_posix == replace(rel, "\\", "/")
           isd == is_dir(fs, entry)
           ex == explain(cfg.excluder, rel_posix, isd)
           rest == [stack EXCEPT ![Len(stack)].entries = Tail(@)]
           lg == Append(log, Explained(entry, rel_posix, isd))
       IN
       IF sym /\ \/ isd /\ cfg.symlinks \notin {DIRS, ALL}
                 \/ is_file(fs, entry) /\ cfg.symlinks \notin {FILES, ALL}
       THEN walk_continue(rest, results, trace, log)
       ELSE IF walk_excluded(ex.excluded, isd)
       THEN walk_continue(
                rest, results,
                trace_append(trace,
                    DiscoveryTraceItem(
                        rel_posix, isd, "excluded", "ignore",
                        IF ex.matched # None
                        THEN ex.matched.pattern
                             \o (IF ex.matched.directory_only THEN <<"/">> ELSE <<>>)
                        ELSE NoneStr,
                        IF ex.matched # None THEN ex.matched.source ELSE "None")),
                lg)
       ELSE IF walk_filtered(cfg.include_patterns, rel_posix, isd)
       THEN walk_continue(
                rest, results,
                trace_append(trace,
                    DiscoveryTraceItem(rel_posix, FALSE, "excluded", "include",
                                       NoneStr, "None")),
                lg)
       ELSE IF isd
       THEN \E listing \in Perms(iterdir(fs, entry)) :
                walk_continue(
                    Append(rest, walk_dir(entry, rel_posix, listing)),
                    Append(results,
                           DiscoveredPath(resolved(fs, entry), rel_posix, TRUE, sym, 0, FALSE)),
                    trace,
                    Append(lg, Listed(entry)))
       ELSE IF StatKind(fs, entry) = "missing"
       THEN walk_raise("OSError", rel_posix, lg)
       ELSE IF exceeds_max(st_size(fs, entry), cfg.max_file_bytes)
       THEN walk_raise("ValueError", rel_posix, lg)
       ELSE walk_continue(
                rest,
                Append(results,
                       DiscoveredPath(resolved(fs, entry), rel_posix, FALSE, sym,
                                      st_size(fs, entry), _is_binary_file(fs, entry))),
                trace_append(trace,
                    DiscoveryTraceItem(rel_posix, FALSE, "included", "None",
                                       NoneStr, "None")),
                lg)
    /\ UNCHANGED <<fs, cfg, manifest, run, first>>
    /\ UNCHANGED <<m_vars, r_vars, x_vars, o_vars, s_vars>>

\* ------------------------------------------------------ walked trees

\* Entry names.  A name below "." in code-point order, and one holding a
\* backslash, are among them.
NamePool == {<<"a">>, <<"b">>, <<"-">>, <<"a", "\\", "b">>}

\* Depths, in names below the root, at which a walked tree has entries.
TreeDepths == {1, 2, 3}

FileNode(size, tail, readable) ==
    [kind |-> "file", size |-> size, tail |-> tail, readable |-> readable]
SpecialNode(readable) ==
    [kind |-> "special", size |-> 0, tail |-> <<>>, readable |-> readable]
DirNode == [kind |-> "dir"]
LinkNode(target) == [kind |-> "link", target |-> target]

\* The trees got from tree f by one more entry, a node of pool, under the
\* root or under a directory of f.
Grown(f, names, pool) ==
    LET dirs == {<<>>} \cup {q \in DOMAIN f : f[q].kind = "dir"}
        free == {q \in {Append(d, n) : d \in dirs, n \in names} :
                     q \notin DOMAIN f /\ Len(q) \in TreeDepths}
    IN  {f @@ (q :> nd) : q \in free, nd \in pool}

RECURSIVE Trees(_, _, _)
\* The trees of at most k entries.
Trees(k, names, pool) ==
    IF k = 0 THEN {<<>>}
    ELSE LET smaller == Trees(k - 1, names, pool) IN
         smaller \cup UNION {Grown(f, names, pool) : f \in smaller}

\* The arguments of discover_paths.
Config(excluder, include_patterns, symlinks, max_file_bytes) ==
    [excluder |-> excluder,
     include_patterns |-> include_patterns,
     symlinks |-> symlinks,
     max_file_bytes |-> max_file_bytes]

\* Ignore pattern lists of the walks.
WalkIgnorePool ==
    { <<>>,
      <<[pattern |-> <<"b", "/">>, source |-> "default"]>>,
      <<[pattern |-> <<"b", "/">>, source |-> "default"], [pattern |-> <<"!", "a">>, source |-> "cli"]>>,
      <<[pattern |-> <<"a">>, source |-> "cli"]>> }

\* A walk of a tree of directories and regular files under ignore rules.
WalkInit ==
    /\ MatchIdle
    /\ OutlineIdle
    /\ SummaryIdle
    /\ ResolveIdle
    /\ ExplainIdle
    /\ pc = "start"
    /\ fs \in Trees(MaxNodes, NamePool, {DirNode, FileNode(1, <<65>>, TRUE)})
    /\ cfg \in {Config(Excluder(ig), None, NONE, 0) : ig \in WalkIgnorePool}
    /\ stack = <<>>
    /\ results = <<>>
    /\ trace = [items |-> <<>>]
    /\ d_err = None
    /\ log = <<>>
    /\ manifest = None
    /\ run = 1
    /\ first = None

WalkNext == discover_start \/ walk_dir_step

SpecWalk == WalkInit /\ [][WalkNext]_vars

\* ------------------------------------------- properties of discovery

\* The relative path walk_dir computes for the entry walked as w.
RelOf(w) == replace(join(w, "/"), "\\", "/")

\* The Excluder excludes the directory walked as w.
ExcludedDir(w) == explain(cfg.excluder, RelOf(w), TRUE).excluded

\* Some directory strictly above the entry walked as w is excluded.
UnderExcludedDir(w) == \E k \in 1..(Len(w) - 1) : ExcludedDir(SubSeq(w, 1, k))

\* C7: excluded entries are pruned.  No entry the Excluder excludes is in
\* results, no entry beneath an excluded directory is in results, and the
\* walker neither lists nor hands to the Excluder anything beneath an
\* excluded directory.  Under "b/" the directory b and b/a stay out.
Thm_C7_Pruning ==
    /\ \A i \in 1..Len(results) :
          /\ results[i].absolute_path # <<>> =>
                ~explain(cfg.excluder, results[i].relative_posix, results[i].is_dir).excluded
          /\ ~UnderExcludedDir(results[i].absolute_path)
          /\ (KindAt(fs, <<<<"b">>>>) = "dir" /\ cfg.excluder = Excluder(<<[pattern |-> <<"b", "/">>, source |-> "default"]>>))
                => (results[i].absolute_path = <<>> \/ results[i].absolute_path[1] # <<"b">>)
    /\ \A i \in 1..Len(log) :
          /\ ~UnderExcludedDir(log[i].path)
          /\ log[i].op = "list" => (log[i].path = <<>> \/ ~ExcludedDir(log[i].path))

\* Under "b/" then "!a" the file b/a, which the Excluder on its own would
\* include, was never handed to the Excluder and is not in the returned list:
\* the walk stopped at b.
Wit_C7_Pruning ==
    /\ pc = "done"
    /\ KindAt(fs, <<<<"b">>, <<"a">>>>) = "file"
    /\ ~explain(cfg.excluder, <<"b", "/", "a">>, FALSE).excluded
    /\ ExcludedDir(<<<<"b">>>>)
    /\ \E i \in 1..Len(log) : log[i].op = "explain" /\ log[i].path = <<<<"b">>>>
    /\ \A i \in 1..Len(log) : log[i].path # <<<<"b">>, <<"a">>>>
    /\ \A i \in 1..Len(results) : results[i].absolute_path # <<<<"b">>, <<"a">>>>

\* C8 as stated: in the returned list, for all i < j, entry i is a directory
\* and entry j a file, or they are of one kind and entry i's relative path is
\* strictly below entry j's.
Cex_C8_StrictSort ==
    pc = "done" =>
        \A i, j \in 1..Len(results) :
            i < j =>
                \/ results[i].is_dir /\ ~results[j].is_dir
                \/ /\ results[i].is_dir = results[j].is_dir
                   /\ str_lt(results[i].relative_posix, results[j].relative_posix)

\* C9 as stated: the root, with relative path ".", is the first element of
\* every returned list.
Cex_C9_RootFirst ==
    pc = "done" =>
        /\ results[1].relative_posix = <<".">>
        /\ results[1].absolute_path = <<>>

\* ------------------------------------------------ two passes over a tree

\* The packer's manifest: every discovered path with the representation the
\* policy resolves for it.
pack_manifest ==
    /\ pc = "done"
    /\ manifest' =
           [items |-> [i \in 1..Len(results) |->
                          [path |-> results[i].relative_posix,
                           representation |->
                               resolve(r_rules, results[i].relative_posix,
                                       results[i].is_dir, r_default)]]]
    /\ pc' = "packed"
    /\ UNCHANGED <<fs, cfg, stack, results, trace, d_err, log, run, first>>
    /\ UNCHANGED <<m_vars, r_vars, x_vars, o_vars, s_vars>>

\* What a pass ended with: the list returned and its manifest, or the
\* exception raised.
Outcome == [results |-> results, manifest |-> manifest, error |-> d_err]

\* The same tree is discovered again under the same arguments.
rerun ==
    /\ pc \in {"packed", "error"}
    /\ run = 1
    /\ first' = Outcome
    /\ run' = 2
    /\ pc' = "start"
    /\ stack' = <<>>
    /\ results' = <<>>
    /\ trace' = [items |-> <<>>]
    /\ d_err' = None
    /\ log' = <<>>
    /\ manifest' = None
    /\ UNCHANGED <<fs, cfg>>
    /\ UNCHANGED <<m_vars, r_vars, x_vars, o_vars, s_vars>>

\* Entry names of the trees walked twice.
TwiceNamePool == {<<"a">>, <<"b">>}

\* Representation policies of the manifests.
TwicePolicyPool ==
    { policy_rules(<<[pattern |-> <<"a">>, representation |-> SUMMARY]>>),
      policy_rules(<<[pattern |-> <<"*">>, representation |-> META],
                     [pattern |-> <<"b", "/">>, representation |-> SUMMARY]>>) }

\* Two passes over a tree of directories and files of one and two bytes,
\* with and without a size limit of one byte.
TwiceInit ==
    /\ MatchIdle
    /\ OutlineIdle
    /\ SummaryIdle
    /\ ExplainIdle
    /\ r_raw = <<>> /\ r_rel = <<>> /\ r_is_dir = FALSE /\ r_hits = <<>> /\ r_rep = None
    /\ r_rules \in TwicePolicyPool
    /\ r_default = CONTENT
    /\ pc = "start"
    /\ fs \in Trees(MaxNodes, TwiceNamePool,
                    {DirNode, FileNode(1, <<65>>, TRUE), FileNode(2, <<65, 65>>, TRUE)})
    /\ cfg \in {Config(Excluder(<<[pattern |-> <<"b", "/">>, source |-> "default"]>>),
                       None, NONE, max) : max \in {0, 1}}
    /\ stack = <<>>
    /\ results = <<>>
    /\ trace = [items |-> <<>>]
    /\ d_err = None
    /\ log = <<>>
    /\ manifest = None
    /\ run = 1
    /\ first = None

TwiceNext == discover_start \/ walk_dir_step \/ pack_manifest \/ rerun

SpecTwice == TwiceInit /\ [][TwiceNext]_vars

\* C10: determinism.  Two passes over one tree under one configuration end
\* alike whatever order the operating system lists the directories in: the
\* same list in the same order with the same (path, representation)
\* manifest, or the same exception naming the same file.
Thm_C10_Determinism ==
    (run = 2 /\ pc \in {"packed", "error"}) => Outcome = first

\* A second pass over a directory of two entries returned a list of three
\* paths and its manifest, as the first did.
Wit_C10_Determinism ==
    /\ run = 2
    /\ pc = "packed"
    /\ Cardinality(iterdir(fs, <<>>)) = 2
    /\ Len(results) = 3
    /\ first.results = results
    /\ manifest # None

\* ------------------------------------------------- walks under filters
\* Trees of directories and files of one and two bytes, walked under ignore
\* rules, an include allowlist and a size limit, with a trace list.

\* Entry names a and b; no ignore rule or "b/"; include_patterns None, the
\* empty list or one pattern; max_file_bytes absent (0), one byte, two bytes.
SelectInit ==
    /\ MatchIdle
    /\ OutlineIdle
    /\ SummaryIdle
    /\ ResolveIdle
    /\ ExplainIdle
    /\ pc = "start"
    /\ fs \in Trees(MaxNodes, {<<"a">>, <<"b">>},
                    {DirNode, FileNode(1, <<65>>, TRUE), FileNode(2, <<65, 65>>, TRUE)})
    /\ cfg \in {Config(Excluder(ig), inc, NONE, max) :
                    ig \in {<<>>, <<[pattern |-> <<"b", "/">>, source |-> "cli"]>>},
                    inc \in {None, [list |-> <<>>], [list |-> <<<<"a">>>>], [list |-> <<<<"b", "/">>>>]},
                    max \in {0, 1, 2}}
    /\ stack = <<>>
    /\ results = <<>>
    /\ trace = [items |-> <<>>]
    /\ d_err = None
    /\ log = <<>>
    /\ manifest = None
    /\ run = 1
    /\ first = None

SelectNext == discover_start \/ walk_dir_step

SpecSelect == SelectInit /\ [][SelectNext]_vars

\* The file at w is one the walk reaches and that passes the ignore rules
\* and the include allowlist (no entry of these trees is a symbolic link).
Selected(w) ==
    /\ KindAt(fs, w) = "file"
    /\ ~UnderExcludedDir(w)
    /\ ~explain(cfg.excluder, RelOf(w), FALSE).excluded
    /\ \/ ~include_given(cfg.include_patterns)
       \/ matches_any(cfg.include_patterns.list, RelOf(w), FALSE)

\* The file at w is larger than a limit that is in force.
Oversize(w) ==
    /\ KindAt(fs, w) = "file"
    /\ cfg.max_file_bytes > 0
    /\ fs[w].size > cfg.max_file_bytes

\* C11: size-limit fail-fast.  An exception that ends discover_paths is a
\* ValueError naming the relative path of a selected file larger than a
\* limit in force, and no list is returned with it; a returned list holds
\* every selected file, each of them within the limit or under no limit
\* (max_file_bytes = 0), a file of exactly max_file_bytes among them.
Thm_C11_SizeLimit ==
    /\ pc = "error" =>
          /\ d_err.type = "ValueError"
          /\ results = <<>>
          /\ \E w \in DOMAIN fs :
                Selected(w) /\ Oversize(w) /\ RelOf(w) = d_err.path
    /\ pc = "done" =>
          \A w \in DOMAIN fs :
              Selected(w) =>
                  /\ cfg.max_file_bytes = 0 \/ fs[w].size <= cfg.max_file_bytes
                  /\ \E i \in 1..Len(results) :
                        /\ results[i].absolute_path = w
                        /\ results[i].size_bytes = fs[w].size

\* Under a limit of one byte the walk passed the one-byte file a and raised
\* on the two-byte file b.
Wit_C11_SizeLimit ==
    /\ pc = "error"
    /\ cfg.max_file_bytes = 1
    /\ d_err = [type |-> "ValueError", path |-> <<"b">>]
    /\ KindAt(fs, <<<<"a">>>>) = "file" /\ fs[<<<<"a">>>>].size = 1 /\ Selected(<<<<"a">>>>)
    /\ KindAt(fs, <<<<"b">>>>) = "file" /\ fs[<<<<"b">>>>].size = 2

InResults(w) == \E i \in 1..Len(results) : results[i].absolute_path = w

\* C13: the include allowlist bears on files only.  In a returned list, of
\* the entries the walk reaches and the ignore rules keep, a file is present
\* exactly when no non-empty include list is given or one of its patterns
\* matches the file, and every directory is present and was listed, whether
\* or not any include pattern matches it.
Thm_C13_IncludeFilesOnly ==
    pc = "done" =>
        \A w \in DOMAIN fs :
            (/\ ~UnderExcludedDir(w)
             /\ ~explain(cfg.excluder, RelOf(w), KindAt(fs, w) = "dir").excluded)
            => IF KindAt(fs, w) = "dir"
               THEN /\ InResults(w)
                    /\ \E i \in 1..Len(log) : log[i] = Listed(w)
               ELSE InResults(w) <=>
                        \/ cfg.include_patterns = None
                        \/ cfg.include_patterns.list = <<>>
                        \/ matches_any(cfg.include_patterns.list, RelOf(w), FALSE)

\* Under the include list ["a"] the directory b, which "a" does not match,
\* is in the returned list and so is its file b/a, while its file b/b is not.
Wit_C13_IncludeFilesOnly ==
    /\ pc = "done"
    /\ cfg.include_patterns = [list |-> <<<<"a">>>>]
    /\ KindAt(fs, <<<<"b">>>>) = "dir"
    /\ KindAt(fs, <<<<"b">>, <<"b">>>>) = "file"
    /\ ~matches_any(cfg.include_patterns.list, <<"b">>, TRUE)
    /\ InResults(<<<<"b">>>>)
    /\ InResults(<<<<"b">>, <<"a">>>>)
    /\ ~InResults(<<<<"b">>, <<"b">>>>)

\* ------------------------------------------------- walks over symlinks
\* Trees whose entries directly under the root may be symbolic links to the
\* entry a, which may be a directory, a regular file, a device or socket, a
\* link (a loop) or missing, walked under each of the four policies.

LinksInit ==
    /\ MatchIdle
    /\ OutlineIdle
    /\ SummaryIdle
    /\ ResolveIdle
    /\ ExplainIdle
    /\ pc = "start"
    /\ fs \in {f \in Trees(MaxNodes, {<<"a">>, <<"b">>},
                          {DirNode, FileNode(1, <<65>>, TRUE), SpecialNode(TRUE),
                           LinkNode(<<<<"a">>>>)}) :
                  \A q \in DOMAIN f : f[q].kind = "link" => Len(q) = 1}
    /\ cfg \in {Config(<<>>, None, pol, 0) : pol \in SymlinkPolicy}
    /\ stack = <<>>
    /\ results = <<>>
    /\ trace = [items |-> <<>>]
    /\ d_err = None
    /\ log = <<>>
    /\ manifest = None
    /\ run = 1
    /\ first = None

LinksNext == discover_start \/ walk_dir_step

SpecLinks == LinksInit /\ [][LinksNext]_vars

\* C14 as stated: in a returned list a symbolic link that leads to a
\* directory is present only under DIRS or ALL, one that leads to a regular
\* file only under FILES or ALL, and under NONE no entry is a symbolic link.
Cex_C14_SymlinkPolicy ==
    pc = "done" =>
        \A i \in 1..Len(results) :
            results[i].is_symlink =>
                /\ results[i].is_dir => cfg.symlinks \in {DIRS, ALL}
                /\ KindAt(fs, results[i].absolute_path) = "file"
                      => cfg.symlinks \in {FILES, ALL}
                /\ cfg.symlinks # NONE

\* ------------------------------------------------------------- ignore.py

DEFAULT_IGNORE_PATTERNS ==
    << <<"_", "_", "p", "y", "c", "a", "c", "h", "e", "_", "_", "/">>, <<"*", ".", "p", "y", "c">>, <<"*", ".", "l", "o", "g">>, <<"*", ".", "l", "o", "g", ".", "*">>, <<"*", ".", "t", "m", "p">>, <<"*", ".", "b", "a", "k">>, <<".", "g", "i", "t", "/">>,
       <<".", "v", "e", "n", "v", "/">>, <<".", "m", "y", "p", "y", "_", "c", "a", "c", "h", "e", "/">>, <<".", "p", "y", "t", "e", "s", "t", "_", "c", "a", "c", "h", "e", "/">>, <<".", "r", "u", "f", "f", "_", "c", "a", "c", "h", "e", "/">>, <<".", "a", "n", "a", "t", "o", "m", "y", "/">>,
       <<".", "r", "u", "n", "t", "i", "m", "e", "/">>, <<".", "t", "o", "x", "/">>, <<"d", "i", "s", "t", "/">>, <<"b", "u", "i", "l", "d", "/">>, <<"*", ".", "e", "g", "g", "-", "i", "n", "f", "o", "/">>, <<".", "D", "S", "_", "S", "t", "o", "r", "e">>,
       <<"T", "h", "u", "m", "b", "s", ".", "d", "b">> >>

STANDARD_IGNORE_FILES ==
    << <<".", "r", "e", "p", "o", "m", "i", "x", "i", "g", "n", "o", "r", "e">>, <<".", "i", "g", "n", "o", "r", "e">>, <<".", "g", "i", "t", "i", "g", "n", "o", "r", "e">>, <<".", "g", "i", "t", "/", "i", "n", "f", "o", "/", "e", "x", "c", "l", "u", "d", "e">> >>

RECURSIVE splitlines(_)
\* str.splitlines(): the lines of the text without their line breaks "\n",
\* "\r" and "\r\n"; no empty last line after a final line break.
splitlines(s) ==
    IF s = <<>> THEN <<>>
    ELSE IF \A k \in 1..Len(s) : s[k] \notin {"\n", "\r"} THEN <<s>>
    ELSE LET i == CHOOSE k \in 1..Len(s) :
                      s[k] \in {"\n", "\r"} /\ \A j \in 1..(k - 1) : s[j] \notin {"\n", "\r"}
             e == IF s[i] = "\r" /\ i < Len(s) /\ s[i + 1] = "\n" THEN i + 1 ELSE i
         IN  <<SubSeq(s, 1, i - 1)>> \o splitlines(SubSeq(s, e + 1, Len(s)))

\* _read_patterns_file(path): the lines of the file, or ValueError when
\* read_text raises OSError (no such file, a directory, no permission).
_read_patterns_file(f, path) ==
    IF is_file(f, path) /\ f[resolved(f, path)].readable
    THEN [ok |-> TRUE,
          lines |-> LET ls == splitlines(f[resolved(f, path)].tail)
                    IN  [i \in 1..Len(ls) |-> rstrip(ls[i], "\n")]]
    ELSE [ok |-> FALSE, lines |-> <<>>]

\* patterns.extend((line, source) for line in lines)
extend(patterns, lines, source) ==
    patterns \o [i \in 1..Len(lines) |-> [pattern |-> lines[i], source |-> source]]

RECURSIVE standard_ignores(_, _, _)
\* The loop over STANDARD_IGNORE_FILES (lines 73-76), from its entry rels[1]
\* on: [ok, patterns], ok false when _read_patterns_file raised.
standard_ignores(f, rels, patterns) ==
    IF rels = <<>> THEN [ok |-> TRUE, patterns |-> patterns]
    ELSE LET p == PurePosixPath(Head(rels)) IN
         IF StatKind(f, p) # "missing" /\ is_file(f, p)
         THEN LET rd == _read_patterns_file(f, p) IN
              IF ~rd.ok THEN [ok |-> FALSE, patterns |-> patterns]
              ELSE standard_ignores(f, Tail(rels),
                       extend(patterns, rd.lines, <<"s", "t", "a", "n", "d", "a", "r", "d", "_", "i", "g", "n", "o", "r", "e", "_", "f", "i", "l", "e", ":">> \o Head(rels)))
         ELSE standard_ignores(f, Tail(rels), patterns)

RECURSIVE user_ignores(_, _, _)
\* The loop over ignore_files (lines 78-79).
user_ignores(f, ignore_files, patterns) ==
    IF ignore_files = <<>> THEN [ok |-> TRUE, patterns |-> patterns]
    ELSE LET rd == _read_patterns_file(f, Head(ignore_files)) IN
         IF ~rd.ok THEN [ok |-> FALSE, patterns |-> patterns]
         ELSE user_ignores(f, Tail(ignore_files),
                  extend(patterns, rd.lines, <<"i", "g", "n", "o", "r", "e", "_", "f", "i", "l", "e", ":">> \o join(Head(ignore_files), "/")))

\* Mutant of build_excluder: the CLI patterns are put before the patterns
\* of the ignore files.
build_excluder_cli_early(f, ignore, ignore_files, respect_standard_ignores) ==
    LET p1 == extend(extend(<<>>, DEFAULT_IGNORE_PATTERNS, <<"d", "e", "f", "a", "u", "l", "t">>), ignore, <<"c", "l", "i">>)
        p2 == IF respect_standard_ignores
              THEN standard_ignores(f, STANDARD_IGNORE_FILES, p1)
              ELSE [ok |-> TRUE, patterns |-> p1]
    IN  IF ~p2.ok THEN p2 ELSE user_ignores(f, ignore_files, p2.patterns)

\* build_excluder(root, ignore=..., ignore_files=..., respect_standard_ignores
\* =...): the patterns list handed to Excluder, or ok false for ValueError.
build_excluder(f, ignore, ignore_files, respect_standard_ignores) ==
    LET p1 == extend(<<>>, DEFAULT_IGNORE_PATTERNS, <<"d", "e", "f", "a", "u", "l", "t">>)
        p2 == IF respect_standard_ignores
              THEN standard_ignores(f, STANDARD_IGNORE_FILES, p1)
              ELSE [ok |-> TRUE, patterns |-> p1]
        p3 == IF ~p2.ok THEN p2 ELSE user_ignores(f, ignore_files, p2.patterns)
    IN  IF ~p3.ok THEN p3
        ELSE [ok |-> TRUE, patterns |-> extend(p3.patterns, ignore, <<"c", "l", "i">>)]

\* A root with or without each standard ignore file (.ignore may be a
\* directory), user ignore files x (missing, readable or unreadable) and y,
\* CLI patterns, and one path handed to explain.
BuildInit ==
    /\ MatchIdle
    /\ OutlineIdle
    /\ SummaryIdle
    /\ ResolveIdle
    /\ pc = "b_build"
    /\ fs \in {s1 @@ s2 @@ s3 @@ s4 @@ ux @@ (<<<<"y">>>> :> FileNode(5, <<"a", ".", "t", "x", "t">>, TRUE)) :
                  s1 \in {<<>>, <<<<".", "r", "e", "p", "o", "m", "i", "x", "i", "g", "n", "o", "r", "e">>>> :> FileNode(8, <<"k", "e", "e", "p", ".", "l", "o", "g">>, TRUE)},
                  s2 \in {<<>>, <<<<".", "i", "g", "n", "o", "r", "e">>>> :> DirNode,
                          <<<<".", "i", "g", "n", "o", "r", "e">>>> :> FileNode(15, <<"!", "k", "e", "e", "p", ".", "l", "o", "g">> \o <<"\r", "\n">> \o <<"o", "u", "t", "/">>, TRUE)},
                  s3 \in {<<>>, <<<<".", "g", "i", "t", "i", "g", "n", "o", "r", "e">>>> :> FileNode(9, <<"k", "e", "e", "p", ".", "l", "o", "g">> \o <<"\n">>, TRUE)},
                  s4 \in {<<>>, (<<<<".", "g", "i", "t">>>> :> DirNode) @@ (<<<<".", "g", "i", "t">>, <<"i", "n", "f", "o">>>> :> DirNode)
                                @@ (<<<<".", "g", "i", "t">>, <<"i", "n", "f", "o">>, <<"e", "x", "c", "l", "u", "d", "e">>>> :> FileNode(6, <<"!", "*", ".", "l", "o", "g">>, TRUE))},
                  ux \in {<<>>, <<<<"x">>>> :> FileNode(13, <<"*", ".", "t", "x", "t">> \o <<"\n", "\n">> \o <<"!", "a", ".", "t", "x", "t">>, TRUE),
                          <<<<"x">>>> :> FileNode(5, <<"*", ".", "t", "x", "t">>, FALSE)}}
    /\ cfg \in [ignore : {<<>>, <<<<"!", "*", ".", "l", "o", "g">>>>, <<<<"k", "e", "e", "p", ".", "l", "o", "g">>, <<"!", "a", ".", "t", "x", "t">>>>},
                ignore_files : {<<>>, <<<<<<"x">>>>, <<<<"y">>>>>>, <<<<<<"y">>>>, <<<<"x">>>>>>},
                respect_standard_ignores : BOOLEAN]
    /\ x_rel \in {<<"k", "e", "e", "p", ".", "l", "o", "g">>, <<"a", ".", "t", "x", "t">>, <<"o", "u", "t">>}
    /\ x_is_dir = (x_rel = <<"o", "u", "t">>)
    /\ x_raw = <<>> /\ x_rules = <<>> /\ x_hits = <<>> /\ x_out = None
    /\ stack = <<>> /\ results = <<>> /\ trace = None /\ d_err = None
    /\ log = <<>> /\ manifest = None /\ run = 0 /\ first = None

\* build_excluder(root, ...): the Excluder of the patterns list, or
\* ValueError.
BuildExcluder ==
    /\ pc = "b_build"
    /\ LET b == build_excluder(fs, cfg.ignore, cfg.ignore_files,
                               cfg.respect_standard_ignores)
       IN  IF b.ok
           THEN /\ x_raw' = b.patterns
                /\ x_rules' = Excluder(b.patterns)
                /\ d_err' = None
                /\ pc' = "x_explain"
           ELSE /\ x_raw' = <<>>
                /\ x_rules' = <<>>
                /\ d_err' = [type |-> "ValueError", path |-> <<>>]
                /\ pc' = "error"
    /\ UNCHANGED <<x_rel, x_is_dir, x_hits, x_out>>
    /\ UNCHANGED <<fs, cfg, stack, results, trace, log, manifest, run, first>>
    /\ UNCHANGED <<m_vars, r_vars, o_vars, s_vars>>

BuildNext == BuildExcluder \/ Explain

SpecBuild == BuildInit /\ [][BuildNext]_vars

\* The sources in their order of precedence, and the lines each contributes.
SourceOrder ==
    <<<<"d", "e", "f", "a", "u", "l", "t">>>>
    \o [i \in 1..Len(STANDARD_IGNORE_FILES) |->
           <<"s", "t", "a", "n", "d", "a", "r", "d", "_", "i", "g", "n", "o", "r", "e", "_", "f", "i", "l", "e", ":">> \o STANDARD_IGNORE_FILES[i]]
    \o [i \in 1..Len(cfg.ignore_files) |-> <<"i", "g", "n", "o", "r", "e", "_", "f", "i", "l", "e", ":">> \o join(cfg.ignore_files[i], "/")]
    \o <<<<"c", "l", "i">>>>

LinesOf(k) ==
    IF k = 1 THEN DEFAULT_IGNORE_PATTERNS
    ELSE IF k <= 1 + Len(STANDARD_IGNORE_FILES)
    THEN LET p == PurePosixPath(STANDARD_IGNORE_FILES[k - 1]) IN
         IF cfg.respect_standard_ignores /\ KindAt(fs, p) = "file"
         THEN splitlines(fs[p].tail) ELSE <<>>
    ELSE IF k <= 1 + Len(STANDARD_IGNORE_FILES) + Len(cfg.ignore_files)
    THEN splitlines(fs[cfg.ignore_files[k - 1 - Len(STANDARD_IGNORE_FILES)]].tail)
    ELSE cfg.ignore

\* C15: the patterns list handed to Excluder.  Every pair carries one of the
\* sources default, standard_ignore_file:<name>, ignore_file:<path>, cli; the
\* pairs come in that order of sources (standard files in the order
\* .repomixignore, .ignore, .gitignore, .git/info/exclude, user files in the
\* order given); the pairs of one source are the lines of that source in
\* their order, a standard file contributing only when
\* respect_standard_ignores is set and the file exists.  When a CLI rule
\* matches the path, the last matching rule is a CLI rule and it decides;
\* the CLI pattern "!*.log" re-includes keep.log.
Thm_C15_BuildOrder ==
    pc \in {"x_explain", "x_done"} =>
        /\ \A i \in 1..Len(x_raw) : \E k \in 1..Len(SourceOrder) : x_raw[i].source = SourceOrder[k]
        /\ \A i, j \in 1..Len(x_raw) :
              i < j => \E k, l \in 1..Len(SourceOrder) :
                          /\ k <= l
                          /\ x_raw[i].source = SourceOrder[k]
                          /\ x_raw[j].source = SourceOrder[l]
        /\ \A k \in 1..Len(SourceOrder) :
              LET mine == SelectSeq(x_raw, LAMBDA e : e.source = SourceOrder[k])
              IN  [i \in 1..Len(mine) |-> mine[i].pattern] = LinesOf(k)
        /\ pc = "x_done" =>
              LET hit == {i \in 1..Len(x_rules) : x_hits[i]} IN
              /\ (\E i \in hit : x_rules[i].source = <<"c", "l", "i">>) =>
                    /\ x_rules[MaxOf(hit)].source = <<"c", "l", "i">>
                    /\ x_out.excluded <=> ~x_rules[MaxOf(hit)].negated
              /\ (cfg.ignore = <<<<"!", "*", ".", "l", "o", "g">>>> /\ x_rel = <<"k", "e", "e", "p", ".", "l", "o", "g">> /\ ~x_is_dir)
                    => ~x_out.excluded

\* With every standard file present and respected, user files y then x and
\* the CLI pattern "!*.log", keep.log is matched by the default "*.log", by
\* lines of ignore files and by the CLI pattern, and is included.
Wit_C15_BuildOrder ==
    /\ pc = "x_done"
    /\ cfg.respect_standard_ignores
    /\ \A i \in 1..Len(STANDARD_IGNORE_FILES) :
          KindAt(fs, PurePosixPath(STANDARD_IGNORE_FILES[i])) = "file"
    /\ cfg.ignore_files = <<<<<<"y">>>>, <<<<"x">>>>>>
    /\ cfg.ignore = <<<<"!", "*", ".", "l", "o", "g">>>>
    /\ x_rel = <<"k", "e", "e", "p", ".", "l", "o", "g">> /\ ~x_is_dir
    /\ \E i, j \in 1..Len(x_rules) :
          /\ x_hits[i] /\ x_rules[i].source = <<"d", "e", "f", "a", "u", "l", "t">> /\ ~x_rules[i].negated
          /\ x_hits[j] /\ x_rules[j].source = <<"s", "t", "a", "n", "d", "a", "r", "d", "_", "i", "g", "n", "o", "r", "e", "_", "f", "i", "l", "e", ":", ".", "g", "i", "t", "i", "g", "n", "o", "r", "e">>
    /\ ~x_out.excluded

\* ------------------------------------------- a traced and an untraced pass

\* After a pass with a trace list, the same tree is discovered again under
\* the same arguments with trace=None.
rerun_untraced ==
    /\ pc \in {"done", "error"}
    /\ run = 1
    /\ first' = [results |-> results, error |-> d_err, log |-> log, trace |-> trace]
    /\ run' = 2
    /\ pc' = "start"
    /\ stack' = <<>>
    /\ results' = <<>>
    /\ trace' = None
    /\ d_err' = None
    /\ log' = <<>>
    /\ UNCHANGED <<fs, cfg, manifest>>
    /\ UNCHANGED <<m_vars, r_vars, x_vars, o_vars, s_vars>>

TracedNext == discover_start \/ walk_dir_step \/ rerun_untraced

SpecTraced == SelectInit /\ [][TracedNext]_vars

\* C16: tracing is purely additive.  The pass with trace=None ends as the
\* pass with a trace list did: the same list in the same order or the same
\* exception, after listing the same directories and handing the same
\* entries to the Excluder in the same order.
Thm_C16_TraceAdditive ==
    (run = 2 /\ pc \in {"done", "error"}) =>
        /\ trace = None
        /\ results = first.results
        /\ d_err = first.error
        /\ log = first.log

\* The traced pass recorded an exclusion and an inclusion and returned a
\* list of three or more paths; the untraced pass returned the same list.
Wit_C16_TraceAdditive ==
    /\ run = 2
    /\ pc = "done"
    /\ trace = None
    /\ Len(results) >= 3
    /\ results = first.results
    /\ \E i, j \in 1..Len(first.trace.items) :
          /\ first.trace.items[i].decision = "excluded"
          /\ first.trace.items[j].decision = "included"

\* ------------------------------------------------- properties of the trace

\* The trace records of the given decision for the entry with relative path
\* rel.
TraceOf(rel, decision) ==
    {k \in 1..Len(trace.items) :
        trace.items[k].path = rel /\ trace.items[k].decision = decision}

\* The walker handed the entry of log record e to the Excluder and left it
\* out of the results list.
KeptOut(e) == e.op = "explain" /\ ~InResults(e.path)

\* C17 as stated: after a successful traced pass there is exactly one
\* 'included' record for every entry of the returned list but the root, file
\* or directory, and exactly one 'excluded' record for every entry visited
\* and kept out.
Cex_C17_TraceComplete ==
    pc = "done" =>
        /\ \A i \in 1..Len(results) :
              results[i].absolute_path # <<>> =>
                  Cardinality(TraceOf(results[i].relative_posix, "included")) = 1
        /\ \A i \in 1..Len(log) :
              KeptOut(log[i]) => Cardinality(TraceOf(log[i].rel, "excluded")) = 1

\* C18 as stated: after a traced pass every entry visited and kept out has an
\* 'excluded' record carrying a matched pattern and a matched source.
Cex_C18_Explainable ==
    pc = "done" =>
        \A i \in 1..Len(log) :
            KeptOut(log[i]) =>
                \E k \in TraceOf(log[i].rel, "excluded") :
                    /\ trace.items[k].matched_pattern # NoneStr
                    /\ trace.items[k].matched_source # "None"

\* ------------------------------------------------- walks over file contents
\* Files a and b directly under the root.  A file is a run of "A" bytes, of
\* length 0, sniff_bytes - 1 or sniff_bytes, followed by at most two bytes
\* among NUL, "A", the two bytes of U+00E9 (195, 169) and the invalid byte
\* 255; it may be unreadable.

SniffInit ==
    /\ MatchIdle
    /\ OutlineIdle
    /\ SummaryIdle
    /\ ResolveIdle
    /\ ExplainIdle
    /\ pc = "start"
    /\ fs \in Trees(MaxNodes, {<<"a">>, <<"b">>},
                    {FileNode(pad + Len(t), t, r) :
                        pad \in {0, sniff_bytes - 1, sniff_bytes},
                        t \in {<<65>>, <<0>>, <<195, 169>>, <<195>>, <<169>>, <<255>>},
                        r \in BOOLEAN})
    /\ cfg = Config(<<>>, None, NONE, 0)
    /\ stack = <<>>
    /\ results = <<>>
    /\ trace = [items |-> <<>>]
    /\ d_err = None
    /\ log = <<>>
    /\ manifest = None
    /\ run = 1
    /\ first = None

SniffNext == discover_start \/ walk_dir_step

SpecSniff == SniffInit /\ [][SniffNext]_vars

\* Byte i (from 1) of the file nd.
ByteAt(nd, i) ==
    IF i <= nd.size - Len(nd.tail) THEN 65 ELSE nd.tail[i - (nd.size - Len(nd.tail))]

\* The positions among the first 8192 of the file nd that lie after its
\* leading run of "A" bytes.
SniffedTail(nd) ==
    {i \in (nd.size - Len(nd.tail) + 1)..nd.size : i <= sniff_bytes}

\* The first 8192 bytes of nd are UTF-8: each byte after the run of "A" is
\* below 128, or a lead byte followed within the 8192 by a continuation
\* byte, or a continuation byte preceded by a lead byte.
SniffedUtf8(nd) ==
    \A i \in SniffedTail(nd) :
        LET b == ByteAt(nd, i) IN
        \/ b < 128
        \/ /\ b >= 194 /\ b <= 223
           /\ i + 1 \in SniffedTail(nd)
           /\ ByteAt(nd, i + 1) >= 128 /\ ByteAt(nd, i + 1) <= 191
        \/ /\ b >= 128 /\ b <= 191
           /\ i - 1 \in SniffedTail(nd)
           /\ ByteAt(nd, i - 1) >= 194 /\ ByteAt(nd, i - 1) <= 223

\* C19: binary classification.  No I/O error of the sniff leaves
\* discover_paths; every file is in the returned list, and its is_binary is
\* true exactly when the file cannot be opened or read, or its first (at
\* most) 8192 bytes hold a NUL byte, or those bytes are not UTF-8.
Thm_C19_BinarySniff ==
    /\ pc # "error"
    /\ pc = "done" =>
          \A w \in DOMAIN fs :
              \E i \in 1..Len(results) :
                  /\ results[i].absolute_path = w
                  /\ results[i].is_binary <=>
                        \/ ~fs[w].readable
                        \/ \E k \in SniffedTail(fs[w]) : ByteAt(fs[w], k) = 0
                        \/ ~SniffedUtf8(fs[w])

\* The unreadable file a was emitted as binary; the file b, whose only NUL
\* byte is its byte 8193, was emitted as text.
Wit_C19_BinarySniff ==
    /\ pc = "done"
    /\ Len(results) = 3
    /\ ~fs[<<<<"a">>>>].readable
    /\ fs[<<<<"b">>>>] = FileNode(sniff_bytes + 1, <<0>>, TRUE)
    /\ results[2].relative_posix = <<"a">> /\ results[2].is_binary
    /\ results[3].relative_posix = <<"b">> /\ ~results[3].is_binary

\* ------------------------------------------------ summaries._outline_paths
\* A parsed JSON, YAML or TOML document is a scalar, a dict (a function from
\* its keys, strings, to documents) or a list (a sequence of documents).

Scalar == [kind |-> "scalar"]
Dict(items) == [kind |-> "dict", items |-> items]
List(items) == [kind |-> "list", items |-> items]

\* str(i) for the indices 0..9
Digits == <<"0", "1", "2", "3", "4", "5", "6", "7", "8", "9">>

RECURSIVE keys_descending(_)
\* Mutant of sorted_keys: the keys in descending order.
keys_descending(ks) ==
    IF ks = {} THEN <<>>
    ELSE LET k == CHOOSE k \in ks : \A j \in ks \ {k} : str_lt(j, k)
         IN  <<k>> \o keys_descending(ks \ {k})

RECURSIVE sorted_keys(_)
\* sorted(cur.keys(), key=lambda x: str(x)) for a set of string keys
sorted_keys(ks) ==
    IF ks = {} THEN <<>>
    ELSE LET k == CHOOSE k \in ks : \A j \in ks \ {k} : str_lt(k, j)
         IN  <<k>> \o sorted_keys(ks \ {k})

\* Mutant of depth_reached: a node is skipped only beyond max_depth.
depth_reached_late(depth, max_depth) == depth > max_depth

\* `if depth >= max_depth: continue` (lines 252-253)
depth_reached(depth, max_depth) == depth >= max_depth

RECURSIVE dict_loop_keys_only(_, _, _, _)
\* dict_loop testing only the key budget
dict_loop_keys_only(ks, node, lim, st) ==
    IF ks = <<>> THEN st
    ELSE IF st.key_count >= lim.max_keys
    THEN [st EXCEPT !.returned = TRUE]
    ELSE LET k == Head(ks)
             p == IF node.prefix # <<>> THEN node.prefix \o <<".">> \o k ELSE k
             via == Append(node.steps, [key |-> k])
         IN  dict_loop_keys_only(Tail(ks), node, lim,
                 [paths |-> Append(st.paths, p),
                  steps |-> Append(st.steps, via),
                  queue |-> Append(st.queue,
                                   [prefix |-> p, cur |-> node.cur.items[k],
                                    depth |-> node.depth + 1, steps |-> via]),
                  key_count |-> st.key_count + 1,
                  item_count |-> st.item_count + 1,
                  returned |-> FALSE])

RECURSIVE dict_loop_replacing(_, _, _, _)
\* Mutant of dict_loop: at a reached budget the key at hand takes the place
\* of the last emitted path.
dict_loop_replacing(ks, node, lim, st) ==
    IF ks = <<>> THEN st
    ELSE IF st.key_count >= lim.max_keys \/ st.item_count >= lim.max_items
    THEN [st EXCEPT !.returned = TRUE,
                    !.paths = IF st.paths = <<>> THEN <<>>
                              ELSE Append(Front(st.paths), Head(ks))]
    ELSE LET k == Head(ks)
             p == IF node.prefix # <<>> THEN node.prefix \o <<".">> \o k ELSE k
             via == Append(node.steps, [key |-> k])
         IN  dict_loop_replacing(Tail(ks), node, lim,
                 [paths |-> Append(st.paths, p),
                  steps |-> Append(st.steps, via),
                  queue |-> Append(st.queue,
                                   [prefix |-> p, cur |-> node.cur.items[k],
                                    depth |-> node.depth + 1, steps |-> via]),
                  key_count |-> st.key_count + 1,
                  item_count |-> st.item_count + 1,
                  returned |-> FALSE])

RECURSIVE dict_loop(_, _, _, _)
\* The for loop over the sorted keys ks of the dict node.cur (lines 256-263);
\* st holds paths, steps, queue and the two counters, and returned tells
\* whether the loop left the function by `return paths`.
dict_loop(ks, node, lim, st) ==
    IF ks = <<>> THEN st
    ELSE IF st.key_count >= lim.max_keys \/ st.item_count >= lim.max_items
    THEN [st EXCEPT !.returned = TRUE]
    ELSE LET k == Head(ks)
             p == IF node.prefix # <<>> THEN node.prefix \o <<".">> \o k ELSE k
             via == Append(node.steps, [key |-> k])
         IN  dict_loop(Tail(ks), node, lim,
                 [paths |-> Append(st.paths, p),
                  steps |-> Append(st.steps, via),
                  queue |-> Append(st.queue,
                                   [prefix |-> p, cur |-> node.cur.items[k],
                                    depth |-> node.depth + 1, steps |-> via]),
                  key_count |-> st.key_count + 1,
                  item_count |-> st.item_count + 1,
                  returned |-> FALSE])

RECURSIVE list_loop(_, _, _, _, _)
\* The for loop over enumerate(cur[:min(len(cur), 10)]) from index i on
\* (lines 266-272); vs are the elements still to visit.
list_loop(i, vs, node, lim, st) ==
    IF vs = <<>> THEN st
    ELSE IF st.item_count >= lim.max_items
    THEN [st EXCEPT !.returned = TRUE]
    ELSE LET p == IF node.prefix # <<>>
                  THEN node.prefix \o <<"[", Digits[i + 1], "]">>
                  ELSE <<"[", Digits[i + 1], "]">>
             via == Append(node.steps, [index |-> i])
         IN  list_loop(i + 1, Tail(vs), node, lim,
                 [paths |-> Append(st.paths, p),
                  steps |-> Append(st.steps, via),
                  queue |-> Append(st.queue,
                                   [prefix |-> p, cur |-> Head(vs),
                                    depth |-> node.depth + 1, steps |-> via]),
                  key_count |-> st.key_count,
                  item_count |-> st.item_count + 1,
                  returned |-> FALSE])

\* One iteration of `while queue:` (lines 250-272), and the `return paths`
\* of line 274 when it leaves the queue empty.
outline_step ==
    /\ pc = "o_loop"
    /\ LET node == Head(queue)
           st0 == [paths |-> paths, steps |-> steps, queue |-> Tail(queue),
                   key_count |-> key_count, item_count |-> item_count,
                   returned |-> FALSE]
           st == IF depth_reached(node.depth, limits.max_depth) THEN st0
                 ELSE IF node.cur.kind = "dict"
                 THEN dict_loop(sorted_keys(DOMAIN node.cur.items), node, limits, st0)
                 ELSE IF node.cur.kind = "list"
                 THEN list_loop(0,
                                SubSeq(node.cur.items, 1,
                                       IF Len(node.cur.items) < 10
                                       THEN Len(node.cur.items) ELSE 10),
                                node, limits, st0)
                 ELSE st0
       IN  /\ paths' = st.paths
           /\ steps' = st.steps
           /\ queue' = st.queue
           /\ key_count' = st.key_count
           /\ item_count' = st.item_count
           /\ pc' = IF st.returned \/ st.queue = <<>> THEN "o_done" ELSE "o_loop"
    /\ UNCHANGED <<obj, limits>>
    /\ UNCHANGED <<m_vars, r_vars, x_vars, d_vars, s_vars>>

RECURSIVE Docs(_)
\* The documents nested at most d deep over the keys a and b and lists of
\* at most two elements.
Docs(d) ==
    IF d = 0 THEN {Scalar}
    ELSE LET sub == Docs(d - 1) IN
         sub \cup {Dict(f) : f \in UNION {[ks -> sub] : ks \in SUBSET {<<"a">>, <<"b">>}}}
             \cup {List(q) : q \in UNION {[1..n -> sub] : n \in 0..2}}

\* The document of the depth-cap example, {"a": {"b": {"c": 1}}}.
DocABC == Dict(<<"a">> :> Dict(<<"b">> :> Dict(<<"c">> :> Scalar)))

\* A list of eleven scalars.
List11 == List([i \in 1..11 |-> Scalar])

\* A dict of ten keys, as in the key budget test.
Dict10 ==
    Dict([k \in {<<"a">>, <<"b">>, <<"c">>, <<"d">>, <<"e">>, <<"g">>, <<"h">>,
                 <<"i">>, <<"k">>, <<"l">>} |-> Scalar])

\* The document of the item budget test, {"a": [1, 2, 3, 4, 5]}.
DocA5 == Dict(<<"a">> :> List([i \in 1..5 |-> Scalar]))

\* _outline_paths(obj, max_depth=..., max_items=..., max_keys=...) at its
\* first loop test: the small documents, each also under the key a, under
\* a.b, beside a scalar b and as the one element of a list; the examples; a
\* list of eleven.
OutlineInit ==
    /\ DiscoverIdle
    /\ MatchIdle
    /\ ResolveIdle
    /\ ExplainIdle
    /\ SummaryIdle
    /\ pc = "o_loop"
    /\ obj \in Docs(MaxDocDepth)
               \cup {Dict(<<"a">> :> v) : v \in Docs(MaxDocDepth)}
               \cup {Dict(<<"a">> :> Dict(<<"b">> :> v)) : v \in Docs(MaxDocDepth)}
               \cup {Dict((<<"a">> :> v) @@ (<<"b">> :> Scalar)) : v \in Docs(MaxDocDepth)}
               \cup {List(<<v>>) : v \in Docs(MaxDocDepth)}
               \cup {DocABC, List11, Dict(<<"a">> :> List11), Dict10, DocA5}
    /\ limits \in [max_depth : {1, 2, 3}, max_items : {2, 3, 200}, max_keys : {1, 3, 200}]
    /\ queue = <<[prefix |-> <<>>, cur |-> obj, depth |-> 0, steps |-> <<>>]>>
    /\ paths = <<>>
    /\ steps = <<>>
    /\ key_count = 0
    /\ item_count = 0

OutlineNext == outline_step

SpecOutline == OutlineInit /\ [][OutlineNext]_vars

RECURSIVE PathsOf(_, _)
\* The key and index paths of at most d steps that exist in document v,
\* list elements beyond the tenth left out.
PathsOf(v, d) ==
    IF d = 0 \/ v.kind = "scalar" THEN {}
    ELSE IF v.kind = "dict"
    THEN UNION {{<<[key |-> k]>>}
                \cup {<<[key |-> k]>> \o q : q \in PathsOf(v.items[k], d - 1)} :
                k \in DOMAIN v.items}
    ELSE UNION {{<<[index |-> i - 1]>>}
                \cup {<<[index |-> i - 1]>> \o q : q \in PathsOf(v.items[i], d - 1)} :
                i \in {j \in 1..Len(v.items) : j <= 10}}

\* C20: outline depth cap.  Every emitted path has at most max_depth key or
\* index steps; when _outline_paths returns without having reached the key
\* budget or the item budget, the emitted paths are exactly the key and index
\* paths of the document of at most max_depth steps (of a list, those through
\* its first ten elements).  {"a": {"b": {"c": 1}}} with max_depth = 2 gives
\* ["a", "a.b"].
Thm_C20_DepthCap ==
    /\ \A i \in 1..Len(steps) : Len(steps[i]) <= limits.max_depth
    /\ (pc = "o_done" /\ key_count < limits.max_keys /\ item_count < limits.max_items) =>
          /\ {steps[i] : i \in 1..Len(steps)} = PathsOf(obj, limits.max_depth)
          /\ Len(steps) = Cardinality(PathsOf(obj, limits.max_depth))
          /\ Len(paths) = Len(steps)
    /\ (pc = "o_done" /\ obj = DocABC /\ limits = [max_depth |-> 2, max_items |-> 200, max_keys |-> 200])
          => paths = <<<<"a">>, <<"a", ".", "b">>>>

\* {"a": {"b": {"c": 1}}} was outlined under max_depth = 2: the path a.b.c,
\* which exists in the document, was not emitted.
Wit_C20_DepthCap ==
    /\ pc = "o_done"
    /\ obj = DocABC
    /\ limits.max_depth = 2
    /\ paths = <<<<"a">>, <<"a", ".", "b">>>>
    /\ <<[key |-> <<"a">>], [key |-> <<"b">>], [key |-> <<"c">>]>> \in PathsOf(obj, 3)


\* The emitted paths whose last step is a dictionary key.
KeyPaths == {i \in 1..Len(steps) : "key" \in DOMAIN Last(steps[i])}

\* What the document offers under max_depth: all paths, and the key paths.
Candidates == PathsOf(obj, limits.max_depth)

KeyCandidates == {q \in Candidates : "key" \in DOMAIN Last(q)}

\* C21 as stated: when the document offers more paths than max_items the
\* result has exactly max_items paths, and when it offers more key paths than
\* max_keys the result has exactly max_keys key paths.
Cex_C21_ExactBudget ==
    pc = "o_done" =>
        /\ Len(paths) <= limits.max_items
        /\ Cardinality(KeyPaths) <= limits.max_keys
        /\ Cardinality(Candidates) > limits.max_items => Len(paths) = limits.max_items
        /\ Cardinality(KeyCandidates) > limits.max_keys =>
               Cardinality(KeyPaths) = limits.max_keys

\* C21: outline budgets.  At every point of _outline_paths the number of
\* emitted paths is at most max_items and the number of emitted key paths is
\* at most max_keys.  When the document offers more paths than max_items or
\* more key paths than max_keys, the function returns at the first budget it
\* reaches: the result has max_items paths or max_keys key paths, and it has
\* exactly max_items paths when the key budget is not exceeded by the
\* document, exactly max_keys key paths when the item budget is not.  A
\* 10-key dict with max_keys = 3 gives 3 paths; {"a": [1,2,3,4,5]} with
\* max_items = 3 gives 3 paths.
Thm_C21_Budgets ==
    /\ Len(paths) <= limits.max_items
    /\ Cardinality(KeyPaths) <= limits.max_keys
    /\ Cardinality(KeyPaths) = key_count
    /\ Len(paths) = item_count
    /\ pc = "o_done" =>
        /\ (Cardinality(Candidates) > limits.max_items
              \/ Cardinality(KeyCandidates) > limits.max_keys)
            => (Len(paths) = limits.max_items
                  \/ Cardinality(KeyPaths) = limits.max_keys)
        /\ (Cardinality(Candidates) > limits.max_items
              /\ Cardinality(KeyCandidates) <= limits.max_keys)
            => Len(paths) = limits.max_items
        /\ (Cardinality(KeyCandidates) > limits.max_keys
              /\ Cardinality(Candidates) <= limits.max_items)
            => Cardinality(KeyPaths) = limits.max_keys
        /\ (obj = Dict10 /\ limits = [max_depth |-> 3, max_items |-> 200, max_keys |-> 3])
            => Len(paths) = 3
        /\ (obj = DocA5 /\ limits = [max_depth |-> 3, max_items |-> 3, max_keys |-> 200])
            => Len(paths) = 3

\* {"a": [1,2,3,4,5]} was outlined under max_items = 3 and generous other
\* limits: of its six paths the first three were returned.
Wit_C21_Budgets ==
    /\ pc = "o_done"
    /\ obj = DocA5
    /\ limits = [max_depth |-> 3, max_items |-> 3, max_keys |-> 200]
    /\ Cardinality(Candidates) = 6
    /\ paths = <<<<"a">>, <<"a", "[", "0", "]">>, <<"a", "[", "1", "]">>>>


\* Emitted paths i and j are children of the same dict or list.
Siblings(i, j) == Front(steps[i]) = Front(steps[j])

\* C22: outline order.  Along the emitted list the number of steps of a path
\* never decreases, every path of more than one step comes after its parent
\* path, the keys of one dictionary come in ascending order of their strings,
\* and the indices of one list are among 0..9 and come in ascending order.
Thm_C22_OutlineOrder ==
    /\ \A i, j \in 1..Len(steps) : i < j => Len(steps[i]) <= Len(steps[j])
    /\ \A i \in 1..Len(steps) :
          Len(steps[i]) > 1 => \E j \in 1..(i - 1) : steps[j] = Front(steps[i])
    /\ \A i, j \in 1..Len(steps) :
          (i < j /\ Siblings(i, j)) =>
              IF "key" \in DOMAIN Last(steps[i])
              THEN "key" \in DOMAIN Last(steps[j])
                       /\ str_lt(Last(steps[i]).key, Last(steps[j]).key)
              ELSE "index" \in DOMAIN Last(steps[j])
                       /\ Last(steps[i]).index < Last(steps[j]).index
    /\ \A i \in 1..Len(steps) :
          "index" \in DOMAIN Last(steps[i]) => Last(steps[i]).index \in 0..9
    /\ (pc = "o_done" /\ obj = Dict(<<"a">> :> List11) /\ limits.max_depth >= 2
            /\ limits.max_items = 200) =>
          /\ Len(paths) = 11
          /\ \A i \in 0..9 : paths[i + 2] = <<"a", "[", Digits[i + 1], "]">>

\* A dict holding a list and a scalar was outlined to the end: both keys came
\* first, in order, and the elements of the list after them.
Wit_C22_OutlineOrder ==
    /\ pc = "o_done"
    /\ obj = Dict((<<"a">> :> List(<<Scalar, Scalar>>)) @@ (<<"b">> :> Scalar))
    /\ paths = <<<<"a">>, <<"b">>, <<"a", "[", "0", "]">>, <<"a", "[", "1", "]">>>>


(***************************************************************************)
(* One document outlined twice, the second time under budgets at least as  *)
(* large.                                                                  *)
(***************************************************************************)

\* _outline_paths is called again on the same object with the same
\* max_depth and with max_items and max_keys no smaller than in the call
\* that returned.
outline_again ==
    /\ pc = "o_done"
    /\ run = 0
    /\ first' = [paths |-> paths, limits |-> limits]
    /\ run' = 2
    /\ limits' \in {l \in [max_depth : {1, 2, 3}, max_items : {2, 3, 200},
                          max_keys : {1, 3, 200}] :
                       /\ l.max_depth = limits.max_depth
                       /\ l.max_items >= limits.max_items
                       /\ l.max_keys >= limits.max_keys}
    /\ queue' = <<[prefix |-> <<>>, cur |-> obj, depth |-> 0, steps |-> <<>>]>>
    /\ paths' = <<>>
    /\ steps' = <<>>
    /\ key_count' = 0
    /\ item_count' = 0
    /\ pc' = "o_loop"
    /\ UNCHANGED obj
    /\ UNCHANGED <<fs, cfg, stack, results, trace, d_err, log, manifest>>
    /\ UNCHANGED <<m_vars, r_vars, x_vars, s_vars>>

BudgetNext == outline_step \/ outline_again

SpecBudget == OutlineInit /\ [][BudgetNext]_vars

\* C30: budget monotonicity of the outline.  For one object and one
\* max_depth, the list returned under max_items and max_keys is a prefix of
\* the list returned under budgets that are no smaller.
Thm_C30_BudgetPrefix ==
    (pc = "o_done" /\ run = 2) =>
        /\ Len(first.paths) <= Len(paths)
        /\ SubSeq(paths, 1, Len(first.paths)) = first.paths

\* {"a": [1,2,3,4,5]} was outlined under max_items = 3 and then under
\* max_items = 200: three paths, then the same three followed by three more.
Wit_C30_BudgetPrefix ==
    /\ pc = "o_done"
    /\ run = 2
    /\ obj = DocA5
    /\ first.limits = [max_depth |-> 3, max_items |-> 3, max_keys |-> 200]
    /\ limits = [max_depth |-> 3, max_items |-> 200, max_keys |-> 200]
    /\ Len(first.paths) = 3
    /\ Len(paths) = 6
    /\ SubSeq(paths, 1, 3) = first.paths


(***************************************************************************)
(* Summaries (anatomize.pack.summaries): summary_for_text and the          *)
(* functions it routes to.                                                 *)
(***************************************************************************)

\* SummaryConfig(max_depth=..., max_keys=..., max_items=..., max_headings=...)
SummaryConfig(max_depth, max_keys, max_items, max_headings) ==
    [max_depth |-> max_depth, max_keys |-> max_keys, max_items |-> max_items,
     max_headings |-> max_headings]

\* json.loads on the texts of the model: the parsed object, or the exception
json_loads(t) ==
    CASE t = <<"{", "}">> -> [ok |-> TRUE, obj |-> Dict(<<>>)]
      [] t = <<"[", "]">> -> [ok |-> TRUE, obj |-> List(<<>>)]
      [] t = <<"1">> -> [ok |-> TRUE, obj |-> Scalar]
      [] OTHER -> [ok |-> FALSE, exc |-> "JSONDecodeError"]

\* yaml.safe_load on the texts of the model
yaml_safe_load(t) ==
    CASE t = <<"{", "}">> -> [ok |-> TRUE, obj |-> Dict(<<>>)]
      [] t = <<"[", "]">> -> [ok |-> TRUE, obj |-> List(<<>>)]
      [] t = <<"a", ":", " ", "1">> -> [ok |-> TRUE, obj |-> Dict(<<"a">> :> Scalar)]
      [] t \in {<<"1">>, <<>>, <<"a", " ", "=", " ", "1">>} -> [ok |-> TRUE, obj |-> Scalar]
      [] OTHER -> [ok |-> FALSE, exc |-> "YAMLError"]

\* tomli.loads on the texts of the model
tomli_loads(t) ==
    CASE t = <<>> -> [ok |-> TRUE, obj |-> Dict(<<>>)]
      [] t = <<"a", " ", "=", " ", "1">> -> [ok |-> TRUE, obj |-> Dict(<<"a">> :> Scalar)]
      [] OTHER -> [ok |-> FALSE, exc |-> "TOMLDecodeError"]

\* Mutant of _MD_HEADING: up to seven hashes.
_MD_HEADING_seven(line) ==
    LET n == Len(line)
        sp(c) == c \in {" ", "\t"}
        ok(h, w, t) ==
            /\ h + w + t <= n
            /\ \A i \in 1..h : line[i] = "#"
            /\ \A i \in (h + 1)..(h + w) : sp(line[i])
            /\ \A i \in (h + w + 1)..(h + w + t) : line[i] # "\n"
            /\ \A i \in (h + w + t + 1)..n : sp(line[i])
        cands == {c \in (1..7) \X (1..n) \X (1..n) : ok(c[1], c[2], c[3])}
        best == CHOOSE c \in cands : \A d \in cands :
                    \/ c[1] > d[1]
                    \/ c[1] = d[1] /\ c[2] > d[2]
                    \/ c[1] = d[1] /\ c[2] = d[2] /\ c[3] <= d[3]
    IN  IF cands = {} THEN None
        ELSE [hashes |-> SubSeq(line, 1, best[1]),
              text |-> SubSeq(line, best[1] + best[2] + 1, best[1] + best[2] + best[3])]

\* _MD_HEADING.match(line) for r"^(?P<hashes>#{1,6})\s+(?P<text>.+?)\s*$" on
\* a line without line breaks: the groups, or None.  Of the ways to cut the
\* line into hashes, whitespace, text and trailing whitespace the match is
\* the one the backtracking search finds first: most hashes, then most
\* whitespace (both greedy), then shortest text (lazy).
_MD_HEADING(line) ==
    LET n == Len(line)
        sp(c) == c \in {" ", "\t"}
        ok(h, w, t) ==
            /\ h + w + t <= n
            /\ \A i \in 1..h : line[i] = "#"
            /\ \A i \in (h + 1)..(h + w) : sp(line[i])
            /\ \A i \in (h + w + 1)..(h + w + t) : line[i] # "\n"
            /\ \A i \in (h + w + t + 1)..n : sp(line[i])
        cands == {c \in (1..6) \X (1..n) \X (1..n) : ok(c[1], c[2], c[3])}
        best == CHOOSE c \in cands : \A d \in cands :
                    \/ c[1] > d[1]
                    \/ c[1] = d[1] /\ c[2] > d[2]
                    \/ c[1] = d[1] /\ c[2] = d[2] /\ c[3] <= d[3]
    IN  IF cands = {} THEN None
        ELSE [hashes |-> SubSeq(line, 1, best[1]),
              text |-> SubSeq(line, best[1] + best[2] + 1, best[1] + best[2] + best[3])]

\* summary_for_text(suffix=..., text=..., rel_posix=..., cfg=...) (lines
\* 206-215) up to the first loop of the function it routes to: json_summary,
\* yaml_summary and toml_summary parse and enter _outline_paths or raise,
\* markdown_summary splits the text into lines.
summary_for_text ==
    /\ pc = "s_call"
    /\ LET suf == lower(s_suffix)
           is_json == suf = <<".", "j", "s", "o", "n">>
           is_yaml == suf \in {<<".", "y", "m", "l">>, <<".", "y", "a", "m", "l">>}
           is_toml == suf = <<".", "t", "o", "m", "l">>
           parsed == IF is_json THEN json_loads(s_text)
                     ELSE IF is_yaml THEN yaml_safe_load(s_text)
                     ELSE tomli_loads(s_text)
           caught == IF is_json THEN parsed.exc = "JSONDecodeError" ELSE TRUE
           word == IF is_json THEN <<"J", "S", "O", "N">> ELSE IF is_yaml THEN <<"Y", "A", "M", "L">> ELSE <<"T", "O", "M", "L">>
       IN  IF (is_json \/ is_yaml \/ is_toml) /\ parsed.ok
           THEN /\ obj' = parsed.obj
                /\ limits' = [max_depth |-> s_cfg.max_depth,
                              max_items |-> s_cfg.max_items,
                              max_keys |-> s_cfg.max_keys]
                /\ queue' = <<[prefix |-> <<>>, cur |-> parsed.obj, depth |-> 0,
                               steps |-> <<>>]>>
                /\ pc' = "o_loop"
                /\ UNCHANGED <<paths, steps, key_count, item_count>>
                /\ UNCHANGED <<s_lines, s_out>>
           ELSE IF is_json \/ is_yaml \/ is_toml
           THEN /\ s_out' = IF caught
                            THEN [raised |-> "ValueError",
                                  message |-> <<"F", "a", "i", "l", "e", "d", " ", "t", "o", " ", "p", "a", "r", "s", "e", " ">> \o word \o <<" ", "f", "o", "r", " ", "s", "u", "m", "m", "a", "r", "y">>]
                            ELSE [raised |-> parsed.exc, message |-> <<>>]
                /\ pc' = "s_raised"
                /\ UNCHANGED <<o_vars, s_lines>>
           ELSE IF suf \in {<<".", "m", "d">>, <<".", "m", "a", "r", "k", "d", "o", "w", "n">>}
           THEN /\ s_lines' = splitlines(s_text)
                /\ pc' = "md_loop"
                /\ UNCHANGED <<o_vars, s_out>>
           ELSE /\ s_out' = [raised |-> "ValueError",
                             message |-> <<"U", "n", "s", "u", "p", "p", "o", "r", "t", "e", "d", " ", "s", "u", "m", "m", "a", "r", "y", " ", "t", "y", "p", "e", " ", "f", "o", "r", " ">> \o s_rel]
                /\ pc' = "s_raised"
                /\ UNCHANGED <<o_vars, s_lines>>
    /\ UNCHANGED <<s_suffix, s_text, s_rel, s_cfg, s_headings>>
    /\ UNCHANGED <<m_vars, r_vars, x_vars, d_vars>>

\* json_summary, yaml_summary, toml_summary: the return after _outline_paths
summary_return ==
    /\ pc = "o_done"
    /\ s_out' = [type |-> IF lower(s_suffix) = <<".", "j", "s", "o", "n">> THEN "json"
                          ELSE IF lower(s_suffix) = <<".", "t", "o", "m", "l">> THEN "toml"
                          ELSE "yaml",
                 paths |-> paths]
    /\ pc' = "s_done"
    /\ UNCHANGED <<s_suffix, s_text, s_rel, s_cfg, s_lines, s_headings>>
    /\ UNCHANGED <<m_vars, r_vars, x_vars, d_vars, o_vars>>

\* markdown_summary: one iteration of `for line in text.splitlines()` (lines
\* 170-176) with the return that follows its break, or the return of line
\* 177 when no line is left.
markdown_step ==
    /\ pc = "md_loop"
    /\ IF s_lines = <<>>
       THEN /\ s_out' = [type |-> "markdown", headings |-> s_headings]
            /\ pc' = "s_done"
            /\ UNCHANGED <<s_lines, s_headings>>
       ELSE LET mm == _MD_HEADING(Head(s_lines))
                hs == IF mm = None THEN s_headings
                      ELSE Append(s_headings,
                                  [level |-> Len(mm.hashes), text |-> mm.text])
            IN  IF mm # None /\ Len(hs) >= s_cfg.max_headings
                THEN /\ s_headings' = hs
                     /\ s_out' = [type |-> "markdown", headings |-> hs]
                     /\ pc' = "s_done"
                     /\ UNCHANGED s_lines
                ELSE /\ s_headings' = hs
                     /\ s_lines' = Tail(s_lines)
                     /\ pc' = "md_loop"
                     /\ UNCHANGED s_out
    /\ UNCHANGED <<s_suffix, s_text, s_rel, s_cfg>>
    /\ UNCHANGED <<m_vars, r_vars, x_vars, d_vars, o_vars>>

\* summary_for_text is called for the file d/a<suffix>: a data suffix, a
\* Markdown suffix, an unsupported one or none, in either case; the text of a
\* data file is well-formed in some formats and malformed in others, the text
\* of a Markdown file is one or two lines of the pool, or three lines of its
\* first four, joined by "\n", or a text with other line breaks.
SummaryInit ==
    /\ DiscoverIdle
    /\ MatchIdle
    /\ ResolveIdle
    /\ ExplainIdle
    /\ OutlineIdle
    /\ pc = "s_call"
    /\ s_suffix \in {<<".", "j", "s", "o", "n">>, <<".", "J", "S", "O", "N">>, <<".", "y", "m", "l">>, <<".", "y", "a", "m", "l">>, <<".", "t", "o", "m", "l">>, <<".", "m", "d">>, <<".", "m", "a", "r", "k", "d", "o", "w", "n">>,
                     <<".", "M", "D">>, <<".", "t", "x", "t">>, <<>>}
    /\ s_rel = <<"d", "/", "a">> \o s_suffix
    /\ s_cfg \in {SummaryConfig(3, 200, 200, h) : h \in {1, 2, 200}}
    /\ LET pool == <<<<"#", " ", "H", "1">>, <<"#", "#", " ", "H", "2">>, <<" ", " ", "#", " ", "x">>, <<"x">>, <<"#", "#", "#", "#", "#", "#", "#", " ", "x">>, <<"#", "#", "#", "#", "#", "#", " ", "x">>, <<"#", "x">>, <<"#">>,
                     <<"#", " ">>, <<"#", " ", " ">>, <<"#", "\t", "x", " ", " ">>, <<>>, <<"#", " ", "a", " ", "#">>>>
           one == {<<pool[i]>> : i \in 1..Len(pool)}
           two == {<<pool[i], pool[j]>> : i, j \in 1..Len(pool)}
           three == {<<pool[i], pool[j], pool[k]>> : i, j, k \in 1..4}
       IN  s_text \in
               IF lower(s_suffix) \in {<<".", "m", "d">>, <<".", "m", "a", "r", "k", "d", "o", "w", "n">>}
               THEN {join(ls, "\n") : ls \in one \cup two \cup three}
                        \cup {<<"#", " ", "H", "1">> \o <<"\r", "\n">> \o <<"#", "#", " ", "H", "2">> \o <<"\n">>, <<>>}
               ELSE {<<"{", "}">>, <<"[", "]">>, <<"1">>, <<"{">>, <<>>, <<"a", ":", " ", "1">>, <<"a", " ", "=", " ", "1">>}
    /\ s_lines = <<>>
    /\ s_headings = <<>>
    /\ s_out = None

SummaryNext == summary_for_text \/ outline_step \/ summary_return \/ markdown_step

SpecSummary == SummaryInit /\ [][SummaryNext]_vars

\* The number of "#" a line starts with.
LeadingHashes(line) == Len(line) - Len(lstrip(line, "#"))

\* A line that starts at column zero with 1 to 6 "#" followed by whitespace
\* and at least one more character.
HeadingLine(line) ==
    /\ LeadingHashes(line) \in 1..6
    /\ Len(line) >= LeadingHashes(line) + 2
    /\ line[LeadingHashes(line) + 1] \in {" ", "\t"}

\* The heading lines of the text, in document order.
ExpectedHeadings == SelectSeq(splitlines(s_text), HeadingLine)

\* C23: Markdown headings.  markdown_summary returns one heading for each of
\* the first max_headings heading lines of the text, in document order, with
\* level = the number of "#" the line starts with and a non-empty text taken
\* from the line after the hashes and the whitespace that follows them (when
\* the line has other characters than whitespace there, the text starts and
\* ends with one).  Lines with leading spaces or with 7 or more "#" give no
\* heading.  "# H1\n## H2\n  # x" gives the levels 1 and 2.
Thm_C23_MarkdownHeadings ==
    (pc = "s_done" /\ lower(s_suffix) \in {<<".", "m", "d">>, <<".", "m", "a", "r", "k", "d", "o", "w", "n">>}) =>
        /\ s_out.type = "markdown"
        /\ Len(s_out.headings) =
               IF Len(ExpectedHeadings) < s_cfg.max_headings
               THEN Len(ExpectedHeadings) ELSE s_cfg.max_headings
        /\ \A i \in 1..Len(s_out.headings) :
              LET L == ExpectedHeadings[i]
                  h == s_out.headings[i].level
                  t == s_out.headings[i].text
              IN  /\ h = LeadingHashes(L)
                  /\ t # <<>>
                  /\ \E w \in 1..Len(L) :
                        /\ h + w + Len(t) <= Len(L)
                        /\ SubSeq(L, h + w + 1, h + w + Len(t)) = t
                        /\ \A k \in (h + 1)..(h + w) : L[k] \in {" ", "\t"}
                        /\ \A k \in (h + w + Len(t) + 1)..Len(L) : L[k] \in {" ", "\t"}
                  /\ (\E k \in (h + 1)..Len(L) : L[k] \notin {" ", "\t"})
                        => (t[1] \notin {" ", "\t"} /\ t[Len(t)] \notin {" ", "\t"})
        /\ (s_text = <<"#", " ", "H", "1">> \o <<"\n">> \o <<"#", "#", " ", "H", "2">> \o <<"\n">> \o <<" ", " ", "#", " ", "x">>
                /\ s_cfg.max_headings = 200)
              => s_out.headings = <<[level |-> 1, text |-> <<"H", "1">>],
                                    [level |-> 2, text |-> <<"H", "2">>]>>

\* "# H1\n## H2\n  # x" was summarised under the default limits: two
\* headings, the indented line left out.
Wit_C23_MarkdownHeadings ==
    /\ pc = "s_done"
    /\ s_suffix = <<".", "m", "d">>
    /\ s_text = <<"#", " ", "H", "1">> \o <<"\n">> \o <<"#", "#", " ", "H", "2">> \o <<"\n">> \o <<" ", " ", "#", " ", "x">>
    /\ s_cfg.max_headings = 200
    /\ s_out = [type |-> "markdown",
                headings |-> <<[level |-> 1, text |-> <<"H", "1">>], [level |-> 2, text |-> <<"H", "2">>]>>]

\* sub in s
Names(s, sub) ==
    \E i \in 0..(Len(s) - Len(sub)) : SubSeq(s, i + 1, i + Len(sub)) = sub

\* C24: summary failures.  Every exception summary_for_text raises is a
\* ValueError whose message names the relative path of the file.
Cex_C24_FailureNamesPath ==
    pc = "s_raised" => (s_out.raised = "ValueError" /\ Names(s_out.message, s_rel))


\* C26: resolve normalizes its path.  For the policy, path p, is_dir and
\* default of a call, resolve returns the same representation for "/" + p,
\* p + "/" and "/" + p + "/" as for p; the empty string, "/" and "." are
\* paths with no segments and resolve alike.
Thm_C26_ResolveNormalizes ==
    pc = "r_done" =>
        /\ r_rep = resolve(r_rules, <<"/">> \o r_rel, r_is_dir, r_default)
        /\ r_rep = resolve(r_rules, r_rel \o <<"/">>, r_is_dir, r_default)
        /\ r_rep = resolve(r_rules, <<"/">> \o r_rel \o <<"/">>, r_is_dir, r_default)
        /\ r_rel \in {<<>>, <<"/">>, <<".">>} =>
              /\ resolve_path(r_rel) = <<>>
              /\ r_rep = resolve(r_rules, <<>>, r_is_dir, r_default)

\* "/README.md/" was resolved under a policy whose only rule is the anchored
\* "/README.md" -> summary: the rule matched as it does for "README.md".
Wit_C26_ResolveNormalizes ==
    /\ pc = "r_done"
    /\ r_rel = <<"/">> \o s_README_md \o <<"/">>
    /\ r_raw = <<[pattern |-> <<"/">> \o s_README_md, representation |-> SUMMARY]>>
    /\ r_default = META
    /\ r_rep = SUMMARY
    /\ resolve(r_rules, s_README_md, r_is_dir, r_default) = SUMMARY


\* A registered pattern that is not empty once its trailing and leading
\* slashes are removed.
NonEmptyRule(e) == strip(e.pattern, "/") # <<>>

\* C27: no empty compiled pattern.  The compiled rules of a policy are, in
\* the order of registration, one rule for each registered pattern that is
\* not empty after the removal of its trailing and leading slashes: its
\* pattern is that remainder, non-empty, neither starting nor ending with
\* "/", and its representation is the one registered.  "/" and "//" give no
\* rule.
Thm_C27_NoEmptyPattern ==
    pc \in {"r_resolve", "r_done"} =>
        LET kept == SelectSeq(r_raw, NonEmptyRule) IN
        /\ Len(r_rules) = Len(kept)
        /\ \A i \in 1..Len(r_rules) :
              /\ r_rules[i].pattern # <<>>
              /\ Head(r_rules[i].pattern) # "/"
              /\ Last(r_rules[i].pattern) # "/"
              /\ r_rules[i].pattern = strip(kept[i].pattern, "/")
              /\ r_rules[i].representation = kept[i].representation
        /\ (\A i \in 1..Len(r_raw) : r_raw[i].pattern \in {<<"/">>, <<"/", "/">>}) => r_rules = <<>>

\* "//" and then "/docs/" were registered: the compiled policy holds the one
\* anchored, directory-only rule docs.
Wit_C27_NoEmptyPattern ==
    /\ pc = "r_resolve"
    /\ r_raw = <<[pattern |-> <<"/", "/">>, representation |-> META],
                 [pattern |-> <<"/", "d", "o", "c", "s", "/">>, representation |-> SUMMARY]>>
    /\ r_rules = <<[pattern |-> <<"d", "o", "c", "s">>, representation |-> SUMMARY, anchored |-> TRUE,
                    directory_only |-> TRUE, has_slash |-> FALSE]>>


\* A relative path with its last segment removed, "." for a top-level one.
ParentRel(rel) ==
    IF Len(split(rel, "/")) = 1 THEN <<".">>
    ELSE join(Front(split(rel, "/")), "/")

\* C29 as stated: in a returned list every entry other than the root has its
\* parent path in the list, as a directory entry, and every directory entry
\* has size_bytes = 0 and is_binary = false.
Cex_C29_AncestorClosure ==
    pc = "done" =>
        /\ \A i \in 1..Len(results) :
              results[i].relative_posix # <<".">> =>
                  \E j \in 1..Len(results) :
                      /\ results[j].relative_posix = ParentRel(results[i].relative_posix)
                      /\ results[j].is_dir
        /\ \A i \in 1..Len(results) :
              results[i].is_dir =>
                  (results[i].size_bytes = 0 /\ results[i].is_binary = FALSE)


\* The entries walk_dir has visited so far, in the order of the visits.
IsVisit(r) == r.op = "explain"
VisitLog == SelectSeq(log, IsVisit)

\* Depth-first pre-order with siblings in ascending name order: u is an
\* ancestor of v, or below the first directory where they part u goes by the
\* smaller name.
PreLt(u, v) ==
    \/ Len(u) < Len(v) /\ SubSeq(v, 1, Len(u)) = u
    \/ \E k \in 1..Len(u) :
          /\ k <= Len(v)
          /\ \A j \in 1..(k - 1) : u[j] = v[j]
          /\ str_lt(u[k], v[k])

\* C25: traversal and trace order.  At every point of a discovery the
\* entries visited so far were visited in depth-first pre-order with siblings
\* in ascending name order, and a directory was listed immediately after it
\* was visited; every step that changes the trace appends exactly one record,
\* the record of the entry visited in that step.  Hence the records of the
\* entries beneath a directory are contiguous and lie between those of its
\* siblings with smaller and with larger names.
Thm_C25_TraversalOrder ==
    /\ [](/\ \A i, j \in 1..Len(VisitLog) :
                i < j => PreLt(VisitLog[i].path, VisitLog[j].path)
          /\ \A i \in 1..Len(log) :
                (log[i].op = "list" /\ log[i].path # <<>>) =>
                    (i > 1 /\ log[i - 1].op = "explain" /\ log[i - 1].path = log[i].path))
    /\ [][trace' # trace =>
             /\ Len(trace'.items) = Len(trace.items) + 1
             /\ SubSeq(trace'.items, 1, Len(trace.items)) = trace.items
             /\ Len(VisitLog') = Len(VisitLog) + 1
             /\ Last(trace'.items).path = Last(VisitLog').rel
             /\ Last(trace'.items).is_dir = Last(VisitLog').is_dir]_vars

\* A root with the directory a, the file a/b inside it and the file b beside
\* it was walked to the end: a, a/b and b were visited in this order and the
\* trace holds the record of a/b before the record of b.
Wit_C25_TraversalOrder ==
    /\ pc = "done"
    /\ KindAt(fs, <<<<"a">>, <<"b">>>>) = "file"
    /\ KindAt(fs, <<<<"b">>>>) = "file"
    /\ [i \in 1..Len(VisitLog) |-> VisitLog[i].path] = << <<<<"a">>>>, <<<<"a">>, <<"b">>>>, <<<<"b">>>> >>
    /\ [i \in 1..Len(trace.items) |-> trace.items[i].path] = <<<<"a", "/", "b">>, <<"b">>>>


(***************************************************************************)
(* Walks of trees whose symbolic links may point to the root or to the     *)
(* directory a, from any depth: a followed link can lead back to one of    *)
(* its own ancestors.                                                      *)
(***************************************************************************)

LoopInit ==
    /\ MatchIdle
    /\ OutlineIdle
    /\ SummaryIdle
    /\ ResolveIdle
    /\ ExplainIdle
    /\ pc = "start"
    /\ fs \in Trees(MaxNodes, {<<"a">>, <<"b">>},
                    {DirNode, FileNode(1, <<65>>, TRUE), LinkNode(<<>>), LinkNode(<<<<"a">>>>)})
    /\ cfg \in {Config(<<>>, None, pol, 0) : pol \in SymlinkPolicy}
    /\ stack = <<>>
    /\ results = <<>>
    /\ trace = [items |-> <<>>]
    /\ d_err = None
    /\ log = <<>>
    /\ manifest = None
    /\ run = 1
    /\ first = None

SpecLoop == LoopInit /\ [][LinksNext]_vars

\* The deepest nesting of walk_dir calls: the root, and for each of the
\* MaxSymlinkHops + 1 stretches of a walked path between two followed links
\* at most as many names as a tree is deep.
DepthBound == 1 + MaxOf(TreeDepths) * (MaxSymlinkHops + 1)

RECURSIVE Rank(_, _)
\* The entries the calls st have still to visit, the outermost call
\* weighing most: a number in base 3, one digit for each of the calls from
\* number i on, a directory of these trees holding at most two entries.
Rank(st, i) ==
    IF i > Len(st) THEN 0
    ELSE Len(st[i].entries) * 3^(DepthBound - i) + Rank(st, i + 1)

\* C28: termination.  Under each symlink policy, and also on trees in which
\* a followed directory link leads to one of its ancestors, a discovery
\* returns a list or raises: while it runs a next step exists (the innermost
\* call of walk_dir has an entry to visit), the calls of walk_dir are nested
\* at most DepthBound deep, and every step lowers the rank of what is left to
\* visit, a natural number.
Thm_C28_Terminates ==
    /\ [](/\ pc \in {"start", "walk", "done", "error"}
          /\ pc = "walk" => (stack # <<>> /\ Last(stack).entries # <<>>)
          /\ Len(stack) <= DepthBound
          /\ \A i \in 1..Len(stack) : Len(stack[i].entries) < 3)
    /\ [][pc = "walk" => Rank(stack', 1) < Rank(stack, 1)]_vars

\* The root holds the one entry a, a link to the root, and directory links
\* are followed: the walk went down a/a/... until the operating system
\* refused to resolve the path, and discover_paths raised OSError.
Wit_C28_Terminates ==
    /\ pc = "error"
    /\ fs = (<<<<"a">>>> :> LinkNode(<<>>))
    /\ cfg.symlinks = DIRS
    /\ d_err.type = "OSError"
    /\ Len(Last(VisitLog).path) = MaxSymlinkHops + 1

====
